---- MODULE Spec2Model ----
(***************************************************************************)
(* State-machine model of the authorization / authentication core of the   *)
(* Ouvira backend (Django): tenancy graph and admin checks, invitation     *)
(* lifecycle, credential lockout, OTP challenge, 2FA login sessions and    *)
(* JWT token service.                                                      *)
(*                                                                         *)
(* The services run under Django's autocommit (no transaction.atomic, no   *)
(* select_for_update anywhere in the sources), so every ORM statement is   *)
(* its own committed step.  Handlers whose claims are about interleavings  *)
(* are modelled statement by statement, with the ORM instance a request    *)
(* holds kept as that request's snapshot.                                  *)
(***************************************************************************)
EXTENDS Integers, Sequences, FiniteSets, TLC

VARIABLES
    now,              \* timezone.now(), in the unit of the specification at hand
    roles, uc, ucr,   \* Role, UserCompany, UserCompanyRole tables
    invitations,      \* Invitation table; a row's token is its position
    invLog,           \* history: what accept calls did to each invitation
    req,              \* locals of the workers serving accept requests
    acct,             \* CustomUser.failed_login_attempts / locked_until
    authLog,          \* history: the last authenticate_user call and the failure streak
    otps,             \* OTP table, newest row first
    otpLog,           \* history: the last verify_otp call and the wrong guesses so far
    outstanding,      \* refresh tokens issued (simplejwt OutstandingToken)
    blacklist,        \* blacklisted refresh tokens (simplejwt BlacklistedToken)
    tokLog,           \* history: successful refreshes per refresh token
    twofa,            \* CustomUser 2FA fields
    sessions,         \* TwoALoginSession table
    vreq,             \* locals of the workers serving 2FA verification requests
    tfaLog,           \* history: logins, verifications and token issuances
    rp,               \* RolePermission table, in order of creation
    admLog,           \* history: admin grants withdrawn and not granted again
    invCall,          \* history: the last invitation call made in one piece
    lreq,             \* locals of the workers serving password logins
    loginLog,         \* history: the last password login that has returned
    oreq,             \* locals of the workers serving create_otp calls
    tokCall,          \* history: the last refresh or blacklist call on a token string
    activity,         \* LoginActivity table, in order of creation
    overify,          \* locals of the workers serving verify_otp calls
    ucCall,           \* history: the last UserCompany update or delete request served
    aged              \* history: the invitations that were pending past their expires_at

tenancyVars == <<roles, uc, ucr>>
invVars == <<invitations, invLog, req>>
authVars == <<acct, authLog>>
otpVars == <<otps, otpLog>>
tokVars == <<outstanding, blacklist, tokLog>>
tfaVars == <<twofa, sessions, vreq, tfaLog>>
moreVars == <<lreq, loginLog, oreq, tokCall, activity, overify, ucCall, aged>>
auxVars == <<rp, admLog, invCall, moreVars>>

(***************************************************************************)
(* Universe                                                                *)
(***************************************************************************)
Users == {"u1", "u2"}
NoUser == "nobody"
Companies == {1, 2}
NoCompany == 0
Roles == {"r1", "r2"}
NoRole == "norole"
Procs == {"p1", "p2"}

\* CustomUser.email as stored on the account (not normalised by the model)
UserEmail(u) == IF u = "u1" THEN "A@x.io" ELSE "b@x.io"

\* str.lower() on the strings the model uses
Lower(s) == CASE s = "A@x.io" -> "a@x.io"
              [] s = "Admin" -> "admin"
              [] s = "ADMIN" -> "admin"
              [] OTHER -> s

(***************************************************************************)
(* Bounds                                                                  *)
(***************************************************************************)
MaxInvitations == 2
MaxInvTicks == 2

(***************************************************************************)
(* Tenancy graph: Role, UserCompany, UserCompanyRole rows                  *)
(***************************************************************************)
NoUcRow == [exists |-> FALSE, is_active |-> FALSE, is_deleted |-> FALSE]
NoUcrRow == [exists |-> FALSE, is_deleted |-> FALSE]

TenancyInit ==
    /\ roles = [r \in Roles |->
                  IF r = "r1" THEN [company |-> 1, role |-> "Admin", is_deleted |-> FALSE]
                              ELSE [company |-> NoCompany, role |-> "employee", is_deleted |-> FALSE]]
    /\ uc = [u \in Users |-> [c \in Companies |-> NoUcRow]]
    /\ ucr = [u \in Users |-> [c \in Companies |-> [r \in Roles |-> NoUcrRow]]]

\* RoleService.update_role(role, company=c)
update_role(r, c) ==
    /\ roles[r].company # c
    /\ roles' = [roles EXCEPT ![r].company = c]
    /\ UNCHANGED <<uc, ucr>>

\* UserCompanyService.remove_user_from_company
remove_user_from_company(u, c) ==
    /\ uc[u][c].exists
    /\ ~uc[u][c].is_deleted
    /\ uc' = [uc EXCEPT ![u][c] = [exists |-> TRUE, is_active |-> FALSE, is_deleted |-> TRUE]]
    /\ UNCHANGED <<roles, ucr>>

\* UserCompanyRoleService.remove_role_from_user
remove_role_from_user(u, c, r) ==
    /\ ucr[u][c][r].exists
    /\ ~ucr[u][c][r].is_deleted
    /\ ucr' = [ucr EXCEPT ![u][c][r].is_deleted = TRUE]
    /\ UNCHANGED <<roles, uc>>

(***************************************************************************)
(* Invitations                                                             *)
(***************************************************************************)
DEFAULT_EXPIRY_DAYS == 7

\* Invitation.default_expiry
default_expiry == now + DEFAULT_EXPIRY_DAYS

NoInv == [company |-> NoCompany, email |-> "", role |-> NoRole, status |-> "none",
          expires_at |-> 0, accepted_by |-> NoUser]

\* The locals of a worker serving an accept request.  An invitation's token is its position in the
\* table (tokens are unique per row).
Idle == [pc |-> "idle", user |-> NoUser, id |-> 0, snap |-> NoInv]

NoLog == [returned |-> 0, assoc |-> FALSE, grant |-> FALSE]

InvInit ==
    /\ invitations = <<>>
    /\ invLog = <<>>
    /\ req = [p \in Procs |-> Idle]

Free(p) == req[p].pc = "idle"

\* Invitation.is_expired, on a loaded instance
is_expired(inv) == inv.expires_at < now

\* Invitation.objects.filter(email=email, company=company, status="pending").exists()
\* (an exact, case-sensitive match on the email as passed in)
PendingExists(email, company) ==
    \E i \in 1..Len(invitations) :
        /\ invitations[i].email = email
        /\ invitations[i].company = company
        /\ invitations[i].status = "pending"

\* InvitationService.create_invitation: role check, pending check on the email as
\* passed in, then Invitation.objects.create(email=email.lower().strip())
create_invitation(company, email, role, expires_at) ==
    /\ Len(invitations) < MaxInvitations
    /\ ~(roles[role].company # NoCompany /\ roles[role].company # company)
    /\ ~PendingExists(email, company)
    /\ invitations' = Append(invitations,
                             [company |-> company, email |-> Lower(email), role |-> role,
                              status |-> "pending", expires_at |-> expires_at,
                              accepted_by |-> NoUser])
    /\ invLog' = Append(invLog, NoLog)
    /\ UNCHANGED <<now, tenancyVars, req>>

\* accept_invitation, lines 139-151: load by (token, pending), expiry and email checks
accept_get(p, token, user) ==
    /\ Free(p)
    /\ IF ~(token \in 1..Len(invitations) /\ invitations[token].status = "pending")
         THEN req' = [req EXCEPT ![p] = Idle]
         ELSE IF is_expired(invitations[token])
           THEN req' = [req EXCEPT ![p] = [pc |-> "mark_expired",
                                           user |-> user, id |-> token, snap |-> invitations[token]]]
           ELSE IF Lower(UserEmail(user)) # Lower(invitations[token].email)
             THEN req' = [req EXCEPT ![p] = Idle]
             ELSE req' = [req EXCEPT ![p] = [pc |-> "associate",
                                             user |-> user, id |-> token, snap |-> invitations[token]]]
    /\ UNCHANGED <<now, tenancyVars, invitations, invLog>>

\* Invitation.mark_expired: save(update_fields=["status"]) from the loaded instance
mark_expired(p) ==
    /\ req[p].pc = "mark_expired"
    /\ invitations' = [invitations EXCEPT ![req[p].id].status = "expired"]
    /\ req' = [req EXCEPT ![p] = Idle]
    /\ UNCHANGED <<now, tenancyVars, invLog>>

\* UserCompanyService.associate_user_with_company, lines 92-100: get_or_create
\* (the unique (user, company) key makes the get-or-create itself an upsert)
associate_get_or_create(p) ==
    /\ req[p].pc = "associate"
    /\ LET u == req[p].user
           c == req[p].snap.company
       IN IF ~uc[u][c].exists
            THEN /\ uc' = [uc EXCEPT ![u][c] = [exists |-> TRUE, is_active |-> TRUE, is_deleted |-> FALSE]]
                 /\ req' = [req EXCEPT ![p].pc = "assign"]
                 /\ invLog' = [invLog EXCEPT ![req[p].id].assoc = TRUE]
            ELSE IF uc[u][c].is_deleted
              THEN /\ req' = [req EXCEPT ![p].pc = "reactivate"]
                   /\ UNCHANGED <<uc, invLog>>
              ELSE /\ req' = [req EXCEPT ![p].pc = "assign"]
                   /\ invLog' = [invLog EXCEPT ![req[p].id].assoc = TRUE]
                   /\ UNCHANGED uc
    /\ UNCHANGED <<now, roles, ucr, invitations>>

\* associate_user_with_company, lines 102-105: un-delete and save
associate_reactivate(p) ==
    /\ req[p].pc = "reactivate"
    /\ uc' = [uc EXCEPT ![req[p].user][req[p].snap.company] =
                [exists |-> TRUE, is_active |-> TRUE, is_deleted |-> FALSE]]
    /\ invLog' = [invLog EXCEPT ![req[p].id].assoc = TRUE]
    /\ req' = [req EXCEPT ![p].pc = "assign"]
    /\ UNCHANGED <<now, roles, ucr, invitations>>

\* UserCompanyRoleService.assign_role_to_user, lines 96-104: company check on the
\* role as it is now, then get_or_create of the grant
assign_get_or_create(p) ==
    /\ req[p].pc = "assign"
    /\ LET u == req[p].user
           c == req[p].snap.company
           r == req[p].snap.role
       IN IF roles[r].company # NoCompany /\ roles[r].company # c
            THEN /\ req' = [req EXCEPT ![p] = Idle]
                 /\ UNCHANGED <<ucr, invLog>>
            ELSE IF ~ucr[u][c][r].exists
              THEN /\ ucr' = [ucr EXCEPT ![u][c][r] = [exists |-> TRUE, is_deleted |-> FALSE]]
                   /\ invLog' = [invLog EXCEPT ![req[p].id].grant = TRUE]
                   /\ req' = [req EXCEPT ![p].pc = "save"]
              ELSE IF ucr[u][c][r].is_deleted
                THEN /\ req' = [req EXCEPT ![p].pc = "undelete"]
                     /\ UNCHANGED <<ucr, invLog>>
                ELSE /\ req' = [req EXCEPT ![p].pc = "save"]
                     /\ invLog' = [invLog EXCEPT ![req[p].id].grant = TRUE]
                     /\ UNCHANGED ucr
    /\ UNCHANGED <<now, roles, uc, invitations>>

\* assign_role_to_user, lines 106-108: un-delete and save
assign_undelete(p) ==
    /\ req[p].pc = "undelete"
    /\ ucr' = [ucr EXCEPT ![req[p].user][req[p].snap.company][req[p].snap.role].is_deleted = FALSE]
    /\ invLog' = [invLog EXCEPT ![req[p].id].grant = TRUE]
    /\ req' = [req EXCEPT ![p].pc = "save"]
    /\ UNCHANGED <<now, roles, uc, invitations>>

\* accept_invitation, lines 167-173: invitation.save() writes every field of the
\* loaded instance, then the pair is returned
accept_save(p) ==
    /\ req[p].pc = "save"
    /\ invitations' = [invitations EXCEPT ![req[p].id] =
                         [req[p].snap EXCEPT !.status = "accepted", !.accepted_by = req[p].user]]
    /\ invLog' = [invLog EXCEPT ![req[p].id].returned = IF @ < 2 THEN @ + 1 ELSE @]
    /\ req' = [req EXCEPT ![p] = Idle]
    /\ UNCHANGED <<now, tenancyVars>>

\* InvitationRevokeView.post: get_invitation(pk), then
\* InvitationService.revoke_invitation on the instance just loaded
revoke_invitation(pk) ==
    /\ pk \in 1..Len(invitations)
    /\ invitations[pk].status = "pending"
    /\ invitations' = [invitations EXCEPT ![pk].status = "revoked"]
    /\ UNCHANGED <<now, tenancyVars, invLog, req>>

\* InvitationResendView.post: get_invitation(pk), then
\* InvitationService.resend_invitation on the instance just loaded
resend_invitation(pk) ==
    /\ pk \in 1..Len(invitations)
    /\ invitations[pk].status = "pending"
    /\ invitations' = [invitations EXCEPT ![pk].expires_at = default_expiry]
    /\ UNCHANGED <<now, tenancyVars, invLog, req>>

\* time passes (in steps of the default invitation lifetime)
TickInv ==
    /\ now < MaxInvTicks * DEFAULT_EXPIRY_DAYS
    /\ now' = now + DEFAULT_EXPIRY_DAYS
    /\ UNCHANGED <<tenancyVars, invVars>>

(***************************************************************************)
(* Credential lockout (AuthService.authenticate_user)                      *)
(***************************************************************************)
NoTime == -1
MAX_FAILED_ATTEMPTS == 5
LOCK_MINUTES == 30
MaxAuthTicks == 3

Username(u) == u
Password(u) == "secret"

\* AuthService.get_user_by_identifier: username, email or phone
get_user_by_identifier(identifier) ==
    IF \E u \in Users : identifier \in {Username(u), UserEmail(u)}
      THEN CHOOSE u \in Users : identifier \in {Username(u), UserEmail(u)}
      ELSE NoUser

check_password(u, password) == password = Password(u)

\* CustomUser.is_locked
is_locked(u) == acct[u].locked_until # NoTime /\ acct[u].locked_until > now

\* the threshold test of authenticate_user, line 131
LockThresholdOff(n) == n > MAX_FAILED_ATTEMPTS
LockThreshold(n) == n >= MAX_FAILED_ATTEMPTS

NoCall == [user |-> NoUser, pwOk |-> FALSE, at |-> 0, preStreak |-> 0, preLockAt |-> NoTime,
           result |-> "none", postAttempts |-> 0]

AuthInit ==
    /\ acct = [u \in Users |-> [failed_login_attempts |-> 0, locked_until |-> NoTime]]
    /\ authLog = [last |-> NoCall, streak |-> [u \in Users |-> 0], lockAt |-> [u \in Users |-> NoTime]]

\* the account after authenticate_user's failure branch, lines 129-135:
\* lock_account saves locked_until only, so the fifth increment is not persisted
AfterFailure(a) ==
    IF LockThreshold(a.failed_login_attempts + 1)
      THEN [a EXCEPT !.locked_until = now + LOCK_MINUTES]
      ELSE [a EXCEPT !.failed_login_attempts = @ + 1]

\* the account after authenticate_user's success branch, lines 137-141
AfterSuccess(a) ==
    IF a.failed_login_attempts > 0
      THEN [failed_login_attempts |-> 0, locked_until |-> NoTime]
      ELSE a

\* AuthService.authenticate_user; the result is "user" or "none" (None)
authenticate_user(identifier, password) ==
    LET u == get_user_by_identifier(identifier)
        ok == check_password(u, password)
        result == IF u = NoUser \/ is_locked(u) \/ ~ok THEN "none" ELSE "user"
        after == IF u = NoUser \/ is_locked(u) THEN acct
                 ELSE IF ~ok THEN [acct EXCEPT ![u] = AfterFailure(@)]
                 ELSE [acct EXCEPT ![u] = AfterSuccess(@)]
    IN /\ acct' = after
       /\ authLog' =
            IF u = NoUser THEN [authLog EXCEPT !.last = NoCall]
            ELSE [last |-> [user |-> u, pwOk |-> ok, at |-> now,
                            preStreak |-> authLog.streak[u], preLockAt |-> authLog.lockAt[u],
                            result |-> result,
                            postAttempts |-> after[u].failed_login_attempts],
                  streak |-> [authLog.streak EXCEPT ![u] =
                                IF result = "user" THEN 0
                                ELSE IF @ < MAX_FAILED_ATTEMPTS THEN @ + 1 ELSE @],
                  lockAt |-> [authLog.lockAt EXCEPT ![u] =
                                IF after[u].locked_until # acct[u].locked_until
                                  THEN (IF after[u].locked_until = NoTime THEN NoTime ELSE now)
                                  ELSE @]]
       /\ UNCHANGED now

TickAuthStep ==
    /\ now < MaxAuthTicks * (LOCK_MINUTES \div 2)
    /\ now' = now + (LOCK_MINUTES \div 2)
    /\ UNCHANGED authVars

(***************************************************************************)
(* OTP challenge (OTPService)                                              *)
(***************************************************************************)
MAX_ATTEMPTS == 3
BLOCK_MINUTES == 15
OTP_EXPIRY_MINUTES == 60
MaxOtpTicks == 5

Phones == {"+100"}
OtpCodes == {"111111", "222222"}

NoVerify == [phone |-> "", pre |-> "none", codeOk |-> FALSE, ok |-> FALSE, reason |-> "", at |-> 0,
             healed |-> FALSE]

OtpInit ==
    /\ otps = <<>>
    /\ otpLog = [last |-> NoVerify, wrongs |-> [ph \in Phones |-> 0],
                 wrongAt |-> [ph \in Phones |-> NoTime],
                 blockedAt |-> [ph \in Phones |-> NoTime]]

HasOtp(phone) == \E i \in 1..Len(otps) : otps[i].phone_number = phone

\* OTPService.get_otp: the first row for the phone (Meta.ordering = -created_at)
get_otp(phone) == CHOOSE i \in 1..Len(otps) :
                      /\ otps[i].phone_number = phone
                      /\ \A j \in 1..(i - 1) : otps[j].phone_number # phone

OtpsWithout(phone) == SelectSeq(otps, LAMBDA o : o.phone_number # phone)

\* the threshold test of verify_otp, line 102
ReachedMaxAttemptsOff(n) == n > MAX_ATTEMPTS
ReachedMaxAttempts(n) == n >= MAX_ATTEMPTS

\* verify_otp, lines 84-91: a block in force, or the row unblocked
BlockInForce(o) == o.is_blocked /\ o.blocked_until # NoTime /\ o.blocked_until > now
UnblockedKeepingAttempts(o) ==
    IF o.is_blocked THEN [o EXCEPT !.is_blocked = FALSE, !.blocked_until = NoTime]
    ELSE o
Unblocked(o) ==
    IF o.is_blocked THEN [o EXCEPT !.is_blocked = FALSE, !.attempts = 0, !.blocked_until = NoTime]
    ELSE o

\* verify_otp, lines 99-107: the row after a wrong code
AfterWrongCode(o) ==
    IF ReachedMaxAttempts(o.attempts + 1)
      THEN [o EXCEPT !.attempts = @ + 1, !.is_blocked = TRUE, !.blocked_until = now + BLOCK_MINUTES]
      ELSE [o EXCEPT !.attempts = @ + 1]

\* what the claim calls the record's state when a verify call arrives
OtpPre(phone) ==
    IF ~HasOtp(phone) THEN "missing"
    ELSE IF otpLog.wrongs[phone] >= 3 /\ now < otpLog.wrongAt[phone] + 15 THEN "blocked"
    ELSE IF otps[get_otp(phone)].expires_at < now THEN "expired"
    ELSE "live"

\* OTPService.create_otp
create_otp(phone, code) ==
    /\ otps' = <<[phone_number |-> phone, otp_code |-> code,
                  expires_at |-> now + OTP_EXPIRY_MINUTES, attempts |-> 0,
                  is_blocked |-> FALSE, blocked_until |-> NoTime]>> \o OtpsWithout(phone)
    /\ otpLog' = [otpLog EXCEPT !.wrongs[phone] = 0, !.wrongAt[phone] = NoTime]
    /\ UNCHANGED now

\* OTPService.delete_otp
delete_otp(phone) ==
    /\ HasOtp(phone)
    /\ otps' = OtpsWithout(phone)
    /\ otpLog' = [otpLog EXCEPT !.wrongs[phone] = 0, !.wrongAt[phone] = NoTime]
    /\ UNCHANGED now

\* OTPService.verify_otp; the result is (ok, the ERROR_MESSAGES key returned)
verify_otp(phone, code) ==
    LET pre == OtpPre(phone)
        log(codeOk, ok, reason, wrongs, wrongAt) ==
            [last |-> [phone |-> phone, pre |-> pre, codeOk |-> codeOk, ok |-> ok,
                       reason |-> reason, at |-> now,
                       healed |-> /\ HasOtp(phone)
                                  /\ otps[get_otp(phone)].is_blocked
                                  /\ ~BlockInForce(otps[get_otp(phone)])],
             wrongs |-> [otpLog.wrongs EXCEPT ![phone] = wrongs],
             wrongAt |-> [otpLog.wrongAt EXCEPT ![phone] = wrongAt],
             blockedAt |-> IF /\ HasOtp(phone)
                              /\ ~BlockInForce(otps[get_otp(phone)])
                              /\ ~(otps[get_otp(phone)].expires_at < now)
                              /\ ~codeOk
                              /\ AfterWrongCode(Unblocked(otps[get_otp(phone)])).is_blocked
                            THEN [otpLog.blockedAt EXCEPT ![phone] = now]
                            ELSE otpLog.blockedAt]
    IN /\ UNCHANGED now
       /\ IF ~HasOtp(phone)
            THEN /\ otps' = otps
                 /\ otpLog' = log(FALSE, FALSE, "OTP_EXPIRED", 0, NoTime)
            ELSE LET i == get_otp(phone)
                     o == otps[i]
                     codeOk == o.otp_code = code
                     healed == o.is_blocked /\ ~BlockInForce(o)
                     u == Unblocked(o)
                     w == IF healed THEN 0 ELSE otpLog.wrongs[phone]
                     wAt == IF healed THEN NoTime ELSE otpLog.wrongAt[phone]
                 IN IF BlockInForce(o)
                      THEN /\ otps' = otps
                           /\ otpLog' = log(codeOk, FALSE, "OTP_EXPIRED", otpLog.wrongs[phone],
                                            otpLog.wrongAt[phone])
                      ELSE IF u.expires_at < now
                        THEN /\ otps' = SubSeq(otps, 1, i - 1) \o SubSeq(otps, i + 1, Len(otps))
                             /\ otpLog' = log(codeOk, FALSE, "OTP_EXPIRED", 0, NoTime)
                        ELSE IF u.otp_code # code
                          THEN /\ otps' = [otps EXCEPT ![i] = AfterWrongCode(u)]
                               /\ otpLog' = log(FALSE, FALSE, "INCORRECT_OTP", w + 1, now)
                          ELSE /\ otps' = [otps EXCEPT ![i] = u]
                               /\ otpLog' = log(TRUE, TRUE, "", w, wAt)

TickOtpStep ==
    /\ now < MaxOtpTicks * BLOCK_MINUTES
    /\ now' = now + BLOCK_MINUTES
    /\ UNCHANGED otpVars

(***************************************************************************)
(* Token service (TokenService over simplejwt's RefreshToken)              *)
(***************************************************************************)
REFRESH_TOKEN_LIFETIME_DAYS == 7
MaxTokens == 2
MaxTokTicks == 2

TokInit ==
    /\ outstanding = <<>>
    /\ blacklist = {}
    /\ tokLog = <<>>

\* a token test that leaves the blacklist out
RefreshTokenValidUnlisted(t) ==
    /\ t \in 1..Len(outstanding)
    /\ outstanding[t].exp > now

\* RefreshToken(refresh_token_str): signature and type, expiry, blacklist.  A
\* token string is the position of its row in the outstanding-token table; 0
\* stands for a string that is no token.
RefreshTokenValid(t) ==
    /\ t \in 1..Len(outstanding)
    /\ outstanding[t].exp > now
    /\ t \notin blacklist

\* TokenService.generate_tokens: RefreshToken.for_user
generate_tokens(u) ==
    /\ Len(outstanding) < MaxTokens
    /\ outstanding' = Append(outstanding, [user |-> u, exp |-> now + REFRESH_TOKEN_LIFETIME_DAYS])
    /\ tokLog' = Append(tokLog, 0)
    /\ UNCHANGED <<now, blacklist>>

\* TokenService.refresh_access_token: a new access token from the refresh
\* token; nothing is written (the refresh token is neither rotated nor blacklisted)
refresh_access_token(t) ==
    /\ RefreshTokenValid(t)
    /\ tokLog' = [tokLog EXCEPT ![t] = IF @ < 2 THEN @ + 1 ELSE @]
    /\ UNCHANGED <<now, outstanding, blacklist>>

\* TokenService.blacklist_token
blacklist_token(t) ==
    /\ RefreshTokenValid(t)
    /\ blacklist' = blacklist \cup {t}
    /\ UNCHANGED <<now, outstanding, tokLog>>

TickTokStep ==
    /\ now < MaxTokTicks * REFRESH_TOKEN_LIFETIME_DAYS
    /\ now' = now + REFRESH_TOKEN_LIFETIME_DAYS
    /\ UNCHANGED tokVars

(***************************************************************************)
(* Two-factor login (TwoFAService, LoginView, TwoFAVerify*View)            *)
(***************************************************************************)
SESSION_MINUTES == 5
TOTP_VALID_WINDOW == 6
BACKUP_CODE_COUNT == 5
MaxSessions == 2
MaxEnables == 1
MaxTfaTicks == 2
MaxFailedLogins == 1

\* TwoFAService.generate_backup_codes for the g-th secret of a user: fresh
\* codes, numbered so that two generations share none
generate_backup_codes(g) == {(g - 1) * BACKUP_CODE_COUNT + k : k \in 1..BACKUP_CODE_COUNT}

VIdle == [pc |-> "idle", kind |-> "", sid |-> 0, user |-> NoUser, backup |-> 0, codes |-> {},
          fresh |-> FALSE, unverified |-> FALSE, matched |-> FALSE]
NoLogin == [user |-> NoUser, twofa |-> FALSE, session |-> 0, tokens |-> FALSE]
NoIssue == [user |-> NoUser, via |-> "", owner |-> NoUser, fresh |-> FALSE,
            unverified |-> FALSE, matched |-> FALSE, byPassword |-> FALSE, twofa |-> FALSE]

TfaInit ==
    /\ twofa = [u \in Users |-> [is_2fa_enabled |-> FALSE, two_fa_type |-> "AUTHENTICATOR",
                                 two_fa_secret |-> 0, backup_codes |-> {}]]
    /\ sessions = <<>>
    /\ vreq = [p \in Procs |-> VIdle]
    /\ tfaLog = [lastLogin |-> NoLogin, lastIssue |-> NoIssue, sessPw |-> <<>>, sessOk |-> <<>>,
                 codeOk |-> [k \in {} |-> 0]]

\* TwoFAService.enable_2fa, for a user enabled fewer than `most` times so far:
\* a new secret and new backup codes in one save
enable_2fa_upto(u, most) ==
    /\ twofa[u].two_fa_secret < most
    /\ twofa' = [twofa EXCEPT ![u] = [@ EXCEPT !.is_2fa_enabled = TRUE,
                                               !.two_fa_secret = @ + 1,
                                               !.backup_codes = generate_backup_codes(twofa[u].two_fa_secret + 1)]]
    /\ UNCHANGED <<now, sessions, vreq, tfaLog, acct>>

enable_2fa(u) == enable_2fa_upto(u, MaxEnables)

\* TwoALoginSession.is_expired
session_is_expired(s) == now > s.created_at + SESSION_MINUTES

\* TwoFAService.verify_totp_code: pyotp accepts the codes of the steps (of 30 s)
\* within valid_window of the current one; `now` counts minutes
verify_totp_code(secret, code) ==
    /\ code.secret = secret
    /\ 2 * (IF now >= code.at THEN now - code.at ELSE code.at - now) <= TOTP_VALID_WINDOW

\* LoginSerializer.validate: the user, when identifier and password match
LoginSerializerUser(identifier, password) ==
    LET u == get_user_by_identifier(identifier)
    IN IF u # NoUser /\ check_password(u, password) THEN u ELSE NoUser

\* LoginView.post
login_post(identifier, password) ==
    LET known == get_user_by_identifier(identifier)
        u == LoginSerializerUser(identifier, password)
    IN IF u = NoUser
         THEN \* lines 315-332: count the failure, no session, no tokens
              /\ known # NoUser
              /\ acct[known].failed_login_attempts < MaxFailedLogins
              /\ acct' = [acct EXCEPT ![known] = AfterFailure(@)]
              /\ UNCHANGED <<now, twofa, sessions, vreq, tfaLog>>
         ELSE IF twofa[u].is_2fa_enabled
           THEN \* lines 338-358: a challenge
                /\ Len(sessions) < MaxSessions
                /\ sessions' = Append(sessions, [user |-> u, created_at |-> now, is_verified |-> FALSE])
                /\ tfaLog' = [tfaLog EXCEPT
                                !.lastLogin = [user |-> u, twofa |-> TRUE,
                                               session |-> Len(sessions) + 1, tokens |-> FALSE],
                                !.sessPw = Append(@, check_password(u, password)),
                                !.sessOk = Append(@, 0)]
                /\ UNCHANGED <<now, twofa, vreq, acct>>
           ELSE \* lines 360-375: tokens at once
                /\ tfaLog' = [tfaLog EXCEPT
                                !.lastLogin = [user |-> u, twofa |-> FALSE, session |-> 0, tokens |-> TRUE],
                                !.lastIssue = [user |-> u, via |-> "password", owner |-> u,
                                               fresh |-> TRUE, unverified |-> TRUE,
                                               matched |-> TRUE,
                                               byPassword |-> check_password(u, password),
                                               twofa |-> twofa[u].is_2fa_enabled]]
                /\ UNCHANGED <<now, twofa, sessions, vreq, acct>>

\* the session lookup of verify_2fa_session / verify_2fa_backup_session:
\* TwoALoginSession.objects.get(session_id=..., is_verified=False)
SessionFound(sid) == sid \in 1..Len(sessions) /\ ~sessions[sid].is_verified

\* the expiry test of both verifications (lines 152 and 192)
SessionUsableAnyAge(sid) == TRUE
SessionUsable(sid) == ~session_is_expired(sessions[sid])

\* the locals of a verification once its checks have passed, with what was
\* true of the session and of the code presented when they were read
Started(kind, sid, pc, backup, codes, matched) ==
    [pc |-> pc, kind |-> kind, sid |-> sid, user |-> sessions[sid].user, backup |-> backup,
     codes |-> codes, fresh |-> now - sessions[sid].created_at <= 5,
     unverified |-> ~sessions[sid].is_verified, matched |-> matched]

\* verify_2fa_session, lines 145-165: session and user are read, the code checked
verify_2fa_session_check(p, sid, code) ==
    /\ vreq[p].pc = "idle"
    /\ SessionFound(sid)
    /\ SessionUsable(sid)
    /\ twofa[sessions[sid].user].two_fa_type = "AUTHENTICATOR"
    /\ verify_totp_code(twofa[sessions[sid].user].two_fa_secret, code)
    /\ vreq' = [vreq EXCEPT ![p] = Started("code", sid, "mark", 0, {},
                                           code.secret = twofa[sessions[sid].user].two_fa_secret)]
    /\ UNCHANGED <<now, twofa, sessions, tfaLog, acct>>

\* verify_2fa_backup_session, lines 185-197, with verify_backup_code, lines
\* 123-127: session and user are read, the code looked up and removed from the
\* list in memory
verify_2fa_backup_session_check(p, sid, code) ==
    /\ vreq[p].pc = "idle"
    /\ SessionFound(sid)
    /\ SessionUsable(sid)
    /\ code \in twofa[sessions[sid].user].backup_codes
    /\ vreq' = [vreq EXCEPT ![p] = Started("backup", sid, "save_codes", code,
                                           twofa[sessions[sid].user].backup_codes \ {code},
                                           code \in generate_backup_codes(twofa[sessions[sid].user].two_fa_secret))]
    /\ UNCHANGED <<now, twofa, sessions, tfaLog, acct>>

\* verify_backup_code, line 128: user.save(update_fields=["backup_codes"])
save_backup_codes(p) ==
    /\ vreq[p].pc = "save_codes"
    /\ twofa' = [twofa EXCEPT ![vreq[p].user].backup_codes = vreq[p].codes]
    /\ vreq' = [vreq EXCEPT ![p].pc = "mark"]
    /\ UNCHANGED <<now, sessions, tfaLog, acct>>

\* verify_2fa_session lines 167-171 / verify_2fa_backup_session lines 200-204:
\* the session is saved as verified and the user returned; the view then
\* issues the tokens (TwoFAVerifyCodeView / TwoFAVerifyBackupView)
mark_verified(p) ==
    /\ vreq[p].pc = "mark"
    /\ sessions' = [sessions EXCEPT ![vreq[p].sid].is_verified = TRUE]
    /\ tfaLog' = [tfaLog EXCEPT
                    !.lastIssue = [user |-> vreq[p].user, via |-> vreq[p].kind,
                                   owner |-> sessions[vreq[p].sid].user,
                                   fresh |-> vreq[p].fresh, unverified |-> vreq[p].unverified,
                                   matched |-> vreq[p].matched,
                                   byPassword |-> tfaLog.sessPw[vreq[p].sid],
                                   twofa |-> twofa[vreq[p].user].is_2fa_enabled],
                    !.sessOk[vreq[p].sid] = IF @ < 2 THEN @ + 1 ELSE @,
                    !.codeOk = IF vreq[p].kind # "backup" THEN @
                               ELSE IF vreq[p].backup \in DOMAIN @
                                 THEN [@ EXCEPT ![vreq[p].backup] = 2]
                                 ELSE [k \in DOMAIN @ \cup {vreq[p].backup} |->
                                         IF k = vreq[p].backup THEN 1 ELSE @[k]]]
    /\ vreq' = [vreq EXCEPT ![p] = VIdle]
    /\ UNCHANGED <<now, twofa, acct>>

TickTfaStep ==
    /\ now < MaxTfaTicks * SESSION_MINUTES
    /\ now' = now + SESSION_MINUTES
    /\ UNCHANGED <<tfaVars, acct>>

(***************************************************************************)
(* Admin checks and the tenancy operations they depend on                  *)
(***************************************************************************)
Callers == Users \cup {NoUser}

\* the strings a request carries as its company parameter; "" is an absent one
CompanyParams == {"", "1", "2", "x"}
CompanyStr(c) == IF c = 1 THEN "1" ELSE "2"

\* int(company_id): -1 stands for ValueError
ParseInt(s) == CASE s = "1" -> 1 [] s = "2" -> 2 [] OTHER -> -1

\* the role filter of the three queries: role__role__iexact="admin", role__is_deleted=False
AdminRoleAnyState(r) == Lower(roles[r].role) = "admin"
AdminRole(r) == Lower(roles[r].role) = "admin" /\ ~roles[r].is_deleted

\* UserCompanyRole.objects.filter(user_company__user=u, user_company__company=c,
\*   user_company__is_active=True, user_company__is_deleted=False,
\*   role__role__iexact="admin", role__is_deleted=False, is_deleted=False).exists()
AdminGrantExists(u, c) ==
    /\ u \in Users
    /\ c \in Companies
    /\ \E r \in Roles :
          /\ uc[u][c].exists /\ uc[u][c].is_active /\ ~uc[u][c].is_deleted
          /\ ucr[u][c][r].exists /\ ~ucr[u][c][r].is_deleted
          /\ AdminRole(r)

\* the same filter for one role, whatever its name: the grant of r to u in c
\* counts when the UserCompany row is active and not deleted and neither the
\* UserCompanyRole row nor the role is deleted
EffectiveGrant(u, c, r) ==
    /\ uc[u][c].exists /\ uc[u][c].is_active /\ ~uc[u][c].is_deleted
    /\ ucr[u][c][r].exists /\ ~ucr[u][c][r].is_deleted
    /\ ~roles[r].is_deleted

\* IsAdminUser.has_permission: the company comes from the body, else the query;
\* int() is first applied outside the try block (line 30)
IsAdminUser_has_permission(u, data, query) ==
    LET company_id == IF data # "" THEN data ELSE query
    IN IF u = NoUser THEN [raised |-> FALSE, allowed |-> FALSE]
       ELSE IF company_id = "" THEN [raised |-> FALSE, allowed |-> FALSE]
       ELSE IF ParseInt(company_id) = -1 THEN [raised |-> TRUE, allowed |-> FALSE]
       ELSE [raised |-> FALSE, allowed |-> AdminGrantExists(u, ParseInt(company_id))]

\* CompanyService.is_company_admin
is_company_admin(u, company_id) == AdminGrantExists(u, company_id)

\* IsCompanyAdmin.has_permission: the company comes from the URL, else the body,
\* else the query; a value that is no number fails inside the try block
IsCompanyAdmin_has_permission(u, pk, data, query) ==
    LET company_id == IF pk # "" THEN pk ELSE IF data # "" THEN data ELSE query
    IN IF u = NoUser \/ company_id = "" THEN FALSE
       ELSE IF ParseInt(company_id) = -1 THEN FALSE
       ELSE AdminGrantExists(u, ParseInt(company_id))

\* IsCompanyAdmin.has_object_permission(obj = the company)
IsCompanyAdmin_has_object_permission(u, c) == AdminGrantExists(u, c)

\* UserCompanyService.associate_user_with_company
associate_user_with_company(u, c) ==
    /\ uc' = [uc EXCEPT ![u][c] =
                IF ~@.exists \/ @.is_deleted
                  THEN [exists |-> TRUE, is_active |-> TRUE, is_deleted |-> FALSE]
                  ELSE @]
    /\ uc' # uc
    /\ UNCHANGED <<roles, ucr>>

\* UserCompanyService.update_user_company(user_company, is_active=a)
update_user_company(u, c, a) ==
    /\ uc[u][c].exists
    /\ uc[u][c].is_active # a
    /\ uc' = [uc EXCEPT ![u][c].is_active = a]
    /\ UNCHANGED <<roles, ucr>>

\* UserCompanyRoleService.assign_role_to_user
assign_role_to_user(u, c, r) ==
    /\ uc[u][c].exists
    /\ ~(roles[r].company # NoCompany /\ roles[r].company # c)
    /\ ucr' = [ucr EXCEPT ![u][c][r] = [exists |-> TRUE, is_deleted |-> FALSE]]
    /\ ucr' # ucr
    /\ UNCHANGED <<roles, uc>>

\* RoleService.update_role(role, role=name)
update_role_name(r, name) ==
    /\ roles[r].role # name
    /\ roles' = [roles EXCEPT ![r].role = name]
    /\ UNCHANGED <<uc, ucr>>

\* RoleService.soft_delete_role
soft_delete_role(r) ==
    /\ roles[r].company # NoCompany
    /\ ~roles[r].is_deleted
    /\ roles' = [roles EXCEPT ![r].is_deleted = TRUE]
    /\ UNCHANGED <<uc, ucr>>


(***************************************************************************)
(* Password logins statement by statement (AuthService.authenticate_user   *)
(* and LoginView.post), served by concurrent workers                       *)
(***************************************************************************)
LIdle == [pc |-> "idle", op |-> "", user |-> NoUser, attempts |-> 0, locked |-> FALSE]

\* what the caller gets for each way a call ends: authenticate_user returns
\* None at lines 120, 125 and 135 and the user at line 143; LoginView answers
\* 400 with LOGIN_CREDENTIALS_INCORRECT (lines 327-332) or 200
Outcome(op, cause) ==
    IF op = "authenticate"
      THEN (IF cause = "ok" THEN "user" ELSE "none")
      ELSE (IF cause = "ok" THEN "accepted" ELSE "credentials_incorrect")

NoLoginCall == [seq |-> 0, op |-> "", user |-> NoUser, cause |-> "", result |-> ""]

\* the record of a call that has returned; cause is the branch it took
LoginCall(op, user, cause) ==
    [seq |-> 1 - loginLog.seq, op |-> op, user |-> user, cause |-> cause,
     result |-> Outcome(op, cause)]

LoginInit ==
    /\ lreq = [p \in Procs |-> LIdle]
    /\ loginLog = NoLoginCall

\* the failure branch (auth_service.py 130-134, views.py 321-325) on an
\* instance loaded with the given counter: save(update_fields=
\* ["failed_login_attempts"]) writes the counter only, lock_account writes
\* locked_until only
AfterFailureOf(a, attempts) ==
    IF LockThreshold(attempts + 1)
      THEN [a EXCEPT !.locked_until = now + LOCK_MINUTES]
      ELSE [a EXCEPT !.failed_login_attempts = attempts + 1]

\* authenticate_user, lines 117-128 and 137-143: the user is loaded and
\* tested; a wrong password leaves the worker before line 130
authenticate_read(p, identifier, password) ==
    LET u == get_user_by_identifier(identifier)
    IN /\ lreq[p].pc = "idle"
       /\ IF u = NoUser
            THEN /\ loginLog' = LoginCall("authenticate", NoUser, "unknown")
                 /\ UNCHANGED <<acct, lreq>>
            ELSE IF is_locked(u)
              THEN /\ loginLog' = LoginCall("authenticate", u, "locked")
                   /\ UNCHANGED <<acct, lreq>>
              ELSE IF ~check_password(u, password)
                THEN /\ lreq' = [lreq EXCEPT ![p] = [pc |-> "save", op |-> "authenticate", user |-> u,
                                                     attempts |-> acct[u].failed_login_attempts,
                                                     locked |-> FALSE]]
                     /\ UNCHANGED <<acct, loginLog>>
                ELSE /\ acct' = [acct EXCEPT ![u] = AfterSuccess(@)]
                     /\ loginLog' = LoginCall("authenticate", u, "ok")
                     /\ UNCHANGED lreq
       /\ UNCHANGED <<now, authLog>>

\* LoginView.post, lines 313-320 and 334-375: the serializer decides; on a
\* failure the view loads the user again (line 319) before it counts
login_read(p, identifier, password) ==
    LET known == get_user_by_identifier(identifier)
        u == LoginSerializerUser(identifier, password)
    IN /\ lreq[p].pc = "idle"
       /\ IF u # NoUser
            THEN /\ loginLog' = LoginCall("login", u, "ok")
                 /\ UNCHANGED lreq
            ELSE IF known = NoUser
              THEN /\ loginLog' = LoginCall("login", NoUser, "unknown")
                   /\ UNCHANGED lreq
              ELSE /\ lreq' = [lreq EXCEPT ![p] = [pc |-> "save", op |-> "login", user |-> known,
                                                   attempts |-> acct[known].failed_login_attempts,
                                                   locked |-> is_locked(known)]]
                   /\ UNCHANGED loginLog
       /\ UNCHANGED <<now, acct, authLog>>

\* the write that ends a failed attempt, from the instance as loaded
failure_save(p) ==
    /\ lreq[p].pc = "save"
    /\ acct' = [acct EXCEPT ![lreq[p].user] = AfterFailureOf(@, lreq[p].attempts)]
    /\ loginLog' = LoginCall(lreq[p].op, lreq[p].user,
                             IF lreq[p].locked THEN "locked" ELSE "wrong_password")
    /\ lreq' = [lreq EXCEPT ![p] = LIdle]
    /\ UNCHANGED <<now, authLog>>

(***************************************************************************)
(* create_otp statement by statement, served by concurrent workers         *)
(***************************************************************************)
OIdle == [pc |-> "idle", phone |-> "", code |-> ""]

OtpReqInit == oreq = [p \in Procs |-> OIdle]

\* create_otp, line 44: OTP.objects.filter(phone_number=...).delete()
create_otp_delete(p, phone, code) ==
    /\ oreq[p].pc = "idle"
    /\ otps' = OtpsWithout(phone)
    /\ otpLog' = [otpLog EXCEPT !.wrongs[phone] = 0, !.wrongAt[phone] = NoTime]
    /\ oreq' = [oreq EXCEPT ![p] = [pc |-> "create", phone |-> phone, code |-> code]]
    /\ UNCHANGED now

\* create_otp, lines 46-56: OTP.objects.create(...); the model has no unique
\* constraint on phone_number, only an index
create_otp_insert(p) ==
    /\ oreq[p].pc = "create"
    /\ otps' = <<[phone_number |-> oreq[p].phone, otp_code |-> oreq[p].code,
                  expires_at |-> now + OTP_EXPIRY_MINUTES, attempts |-> 0,
                  is_blocked |-> FALSE, blocked_until |-> NoTime]>> \o otps
    /\ oreq' = [oreq EXCEPT ![p] = OIdle]
    /\ UNCHANGED <<now, otpLog>>

(***************************************************************************)
(* verify_otp statement by statement, served by concurrent workers         *)
(***************************************************************************)
OVIdle == [pc |-> "idle", phone |-> "", row |-> [attempts |-> 0]]

OtpVerifyInit == overify = [p \in Procs |-> OVIdle]

NoVerifyInFlight == \A p \in Procs : overify[p].pc = "idle"

\* verify_otp, lines 78-99: the row is read (and unblocked when its block has
\* passed), found unexpired and its code differs from the one presented; the
\* worker holds the row as it read it
verify_otp_compare(p, phone, code) ==
    /\ overify[p].pc = "idle"
    /\ HasOtp(phone)
    /\ LET i == get_otp(phone)
           o == otps[i]
           u == Unblocked(o)
       IN /\ ~BlockInForce(o)
          /\ ~(u.expires_at < now)
          /\ u.otp_code # code
          /\ otps' = [otps EXCEPT ![i] = u]
          /\ otpLog' = IF o.is_blocked
                         THEN [otpLog EXCEPT !.wrongs[phone] = 0, !.wrongAt[phone] = NoTime]
                         ELSE otpLog
          /\ overify' = [overify EXCEPT ![p] = [pc |-> "save", phone |-> phone, row |-> u]]
    /\ UNCHANGED now

\* verify_otp, lines 100-107: the attempts of the row held are raised, the
\* block set at the threshold, and the whole row saved (Model.save() updates
\* the row of that primary key, and inserts it when it is gone)
verify_otp_save(p) ==
    /\ overify[p].pc = "save"
    /\ LET phone == overify[p].phone
           saved == AfterWrongCode(overify[p].row)
       IN /\ otps' = IF HasOtp(phone) THEN [otps EXCEPT ![get_otp(phone)] = saved]
                     ELSE <<saved>> \o otps
          /\ otpLog' = [otpLog EXCEPT !.wrongs[phone] = @ + 1, !.wrongAt[phone] = now,
                                       !.blockedAt[phone] = IF saved.is_blocked THEN now ELSE @]
    /\ overify' = [overify EXCEPT ![p] = OVIdle]
    /\ UNCHANGED now

\* verify_otp on its other paths (no row, block in force, row expired, code
\* correct), which end at once
verify_otp_return(phone, code) ==
    /\ ~ (/\ HasOtp(phone)
          /\ ~BlockInForce(otps[get_otp(phone)])
          /\ ~(otps[get_otp(phone)].expires_at < now)
          /\ otps[get_otp(phone)].otp_code # code)
    /\ verify_otp(phone, code)

(***************************************************************************)
(* Token calls with what they return (TokenService)                        *)
(***************************************************************************)
TokCallInit == tokCall = [seq |-> 0, op |-> "", token |-> 0, result |-> ""]

TokCall(op, t, result) == [seq |-> 1 - tokCall.seq, op |-> op, token |-> t, result |-> result]

\* TokenService.refresh_access_token: an access token, or the TokenError of
\* RefreshToken(...) raised again (lines 61-63)
refresh_access_token_call(t) ==
    /\ tokCall' = TokCall("refresh", t, IF RefreshTokenValid(t) THEN "access" ELSE "token_error")
    /\ tokLog' = IF RefreshTokenValid(t)
                   THEN [tokLog EXCEPT ![t] = IF @ < 2 THEN @ + 1 ELSE @]
                   ELSE tokLog
    /\ UNCHANGED <<now, outstanding, blacklist>>

\* TokenService.blacklist_token: True, or False when RefreshToken(...) raises
\* TokenError (lines 81-83)
blacklist_token_call(t) ==
    /\ tokCall' = TokCall("blacklist", t, IF RefreshTokenValid(t) THEN "true" ELSE "false")
    /\ blacklist' = IF RefreshTokenValid(t) THEN blacklist \cup {t} ELSE blacklist
    /\ UNCHANGED <<now, outstanding, tokLog>>

(***************************************************************************)
(* Login requests with the tokens they issue and the LoginActivity rows    *)
(* they record (LoginView, TwoFAVerifyCodeView, TwoFAVerifyBackupView)     *)
(***************************************************************************)
ActivityInit == activity = <<>>

\* a request that records nothing
record_nothing(u) == activity' = activity

\* LoginActivityService.record_login: LoginActivity.objects.create(user=...,
\* ip_address=..., user_agent=...), the timestamp set by auto_now_add
record_login(u) == activity' = Append(activity, [user |-> u, timestamp |-> now])

\* TwoFAService.generate_2fa_code: the current TOTP code of the user's secret
\* (for the SMS type a random code, which no verification accepts)
generate_2fa_code(u) ==
    IF twofa[u].two_fa_type = "AUTHENTICATOR"
      THEN [secret |-> twofa[u].two_fa_secret, at |-> now]
      ELSE [secret |-> -1, at |-> now]

\* the body of LoginView.post's answer to a 2FA-enabled user, lines 348-358,
\* for the session it has just created
ChallengeResponse(sid) ==
    [session_id |-> sid, generated_code |-> generate_2fa_code(sessions[sid].user)]

\* verify_2fa_session, lines 145-165, passes its checks on (session_id, code)
verify_2fa_session_accepts(sid, code) ==
    /\ SessionFound(sid)
    /\ SessionUsable(sid)
    /\ twofa[sessions[sid].user].two_fa_type = "AUTHENTICATOR"
    /\ verify_totp_code(twofa[sessions[sid].user].two_fa_secret, code)

\* LoginView.post, the whole request: after the serializer has accepted the
\* password, lines 338-358 create the session and record the login, lines
\* 360-375 generate the tokens and record the login
LoginView_post(identifier, password) ==
    LET u == LoginSerializerUser(identifier, password)
    IN /\ login_post(identifier, password)
       /\ IF u = NoUser
            THEN UNCHANGED <<tokVars, activity>>
            ELSE IF twofa[u].is_2fa_enabled
              THEN record_login(u) /\ UNCHANGED tokVars
              ELSE generate_tokens(u) /\ record_login(u)

\* TwoFAVerifyCodeView.post lines 509-512 and TwoFAVerifyBackupView.post lines
\* 551-554: the service has returned the user of the session it marks as
\* verified; the view generates the tokens and records the login
TwoFAVerifyView_issue(p) ==
    /\ mark_verified(p)
    /\ generate_tokens(vreq[p].user)
    /\ record_login(vreq[p].user)

(***************************************************************************)
(* Visibility of UserCompany rows (UserCompanyService, UserCompanyListView, *)
(* UserCompanyRetrieveView); a row is named by its user and company        *)
(***************************************************************************)
\* UserCompanyService.is_user_admin: an admin grant in any company
is_user_admin(u) ==
    \E c \in Companies, r \in Roles :
        /\ uc[u][c].exists /\ uc[u][c].is_active /\ ~uc[u][c].is_deleted
        /\ ucr[u][c][r].exists /\ ~ucr[u][c][r].is_deleted
        /\ AdminRole(r)

\* UserCompanyService.get_user_companies
get_user_companies(u, filter_by_user) ==
    {row \in Users \X Companies :
        /\ uc[row[1]][row[2]].exists /\ ~uc[row[1]][row[2]].is_deleted
        /\ (filter_by_user /\ ~is_user_admin(u)) => row[1] = u
        /\ uc[row[1]][row[2]].is_active}

\* UserCompanyListView.get_queryset; NoUser / NoCompany stand for an absent
\* query parameter
UserCompanyListView_get_queryset(u, user_id, company_id) ==
    LET is_admin == is_user_admin(u)
        queryset == get_user_companies(u, ~is_admin)
    IN IF is_admin
         THEN {row \in queryset : /\ user_id # NoUser => row[1] = user_id
                                  /\ company_id # NoCompany => row[2] = company_id}
         ELSE queryset

\* UserCompanyRetrieveView: get_object looks the row up in get_queryset
UserCompanyRetrieveView_get_queryset(u) == get_user_companies(u, ~is_user_admin(u))

(***************************************************************************)
(* The admin-only UserCompany endpoints (UserCompanyUpdateView,            *)
(* UserCompanyDeleteView), each request whole                              *)
(***************************************************************************)
UcCallInit == ucCall = [seq |-> 0, op |-> "", caller |-> NoUser, user |-> NoUser, company |-> NoCompany]

UcCall(op, caller, u, c) == [seq |-> 1 - ucCall.seq, op |-> op, caller |-> caller, user |-> u, company |-> c]

\* get_object over get_queryset of both views: UserCompany.objects.filter(is_deleted=False),
\* the row named by the pk of the URL
UserCompanyRowFound(u, c) == uc[u][c].exists /\ ~uc[u][c].is_deleted

\* UserCompanyDeleteView: IsAdminUser decides on the `company` value of the
\* request, then perform_destroy removes the row of the URL
UserCompanyDeleteView_destroy(caller, data, query, u, c) ==
    /\ IsAdminUser_has_permission(caller, data, query).allowed
    /\ UserCompanyRowFound(u, c)
    /\ remove_user_from_company(u, c)
    /\ ucCall' = UcCall("delete", caller, u, c)

\* UserCompanyUpdateView (PATCH with is_active=a as its only field): IsAdminUser
\* decides on the `company` value of the request, then the serializer saves
\* the row of the URL
UserCompanyUpdateView_update(caller, data, query, u, c, a) ==
    /\ IsAdminUser_has_permission(caller, data, query).allowed
    /\ UserCompanyRowFound(u, c)
    /\ uc[u][c].is_active # a
    /\ uc' = [uc EXCEPT ![u][c].is_active = a]
    /\ ucCall' = UcCall("update", caller, u, c)
    /\ UNCHANGED <<roles, ucr>>

(***************************************************************************)
(* Withdrawn admin grants (history of the tenancy operations)              *)
(***************************************************************************)
\* (u, c) holds a not deleted grant to an admin role other than r
OtherAdminGrant(u, c, r) ==
    \E r2 \in Roles \ {r} : ucr[u][c][r2].exists /\ ~ucr[u][c][r2].is_deleted /\ AdminRole(r2)

\* r is the only admin grant of (u, c)
OnlyAdminGrant(u, c, r) ==
    /\ ucr[u][c][r].exists /\ ~ucr[u][c][r].is_deleted /\ AdminRole(r)
    /\ ~OtherAdminGrant(u, c, r)

AdmInit == admLog = [u \in Users |-> [c \in Companies |-> FALSE]]

(***************************************************************************)
(* Role permissions (RolePermissionService)                                *)
(***************************************************************************)
Permissions == {"perm1", "perm2"}
MaxRolePermissions == 4

RpInit == rp = <<>>

\* a lookup that would pass soft-deleted rows over
RpLookupLiveOnly(r, p) ==
    {i \in 1..Len(rp) : rp[i].role = r /\ rp[i].permission = p /\ ~rp[i].is_deleted}

\* the rows RolePermission.objects.get_or_create(role=r, permission=p) looks
\* among: the model's manager filters nothing, soft-deleted rows are found
RpLookup(r, p) ==
    {i \in 1..Len(rp) : rp[i].role = r /\ rp[i].permission = p}

\* RolePermissionService.assign_permission_to_role: the table it leaves (a
\* row found and not deleted is returned as it is)
AssignedTable(r, p, granted) ==
    IF RpLookup(r, p) = {}
      THEN Append(rp, [role |-> r, permission |-> p, granted |-> granted,
                       is_deleted |-> FALSE, deleted_at |-> NoTime])
      ELSE LET i == CHOOSE i \in RpLookup(r, p) : TRUE
           IN IF rp[i].is_deleted
                THEN [rp EXCEPT ![i].is_deleted = FALSE, ![i].granted = granted]
                ELSE rp

assign_permission_to_role(r, p, granted) ==
    /\ Len(AssignedTable(r, p, granted)) <= MaxRolePermissions
    /\ rp' = AssignedTable(r, p, granted)
    /\ rp' # rp

\* RolePermissionService.update_role_permission
update_role_permission(i, granted) ==
    /\ i \in 1..Len(rp)
    /\ rp[i].granted # granted
    /\ rp' = [rp EXCEPT ![i].granted = granted]

\* RolePermissionService.remove_permission_from_role
remove_permission_from_role(i) ==
    /\ i \in 1..Len(rp)
    /\ ~rp[i].is_deleted
    /\ rp' = [rp EXCEPT ![i].deleted_at = now, ![i].is_deleted = TRUE]

(***************************************************************************)
(* Invitation calls made in one piece (InvitationService, one request at   *)
(* a time), with the outcome of the last call                              *)
(***************************************************************************)
NoInvCall == [seq |-> 0, op |-> "none", id |-> 0, user |-> NoUser, dup |-> FALSE,
              result |-> "", named |-> ""]

\* the record of a call on invitation id (0: none); seq changes with every call
InvCall(op, id, user, dup, result, named) ==
    [seq |-> 1 - invCall.seq, op |-> op, id |-> id, user |-> user, dup |-> dup,
     result |-> result, named |-> named]

AuxInit ==
    /\ RpInit
    /\ AdmInit
    /\ invCall = NoInvCall
    /\ LoginInit
    /\ OtpReqInit
    /\ ActivityInit
    /\ OtpVerifyInit
    /\ UcCallInit
    /\ aged = {}
    /\ TokCallInit

\* a pending invitation for the company whose email is the given one, letter
\* case aside
PendingFor(email, company) ==
    \E i \in 1..Len(invitations) :
        /\ invitations[i].status = "pending"
        /\ invitations[i].company = company
        /\ Lower(invitations[i].email) = Lower(email)

\* create_invitation's `if not expires_at` (line 109); NoTime stands for None
EffectiveExpiry(expires_at) == IF expires_at = NoTime THEN default_expiry ELSE expires_at

\* InvitationService.create_invitation, with its two refusals
create_invitation_call(company, email, role, expires_at) ==
    IF roles[role].company # NoCompany /\ roles[role].company # company
      THEN /\ invCall' = InvCall("create", 0, NoUser, PendingFor(email, company), "role_mismatch", "")
           /\ UNCHANGED <<now, tenancyVars, invVars>>
      ELSE IF PendingExists(email, company)
        THEN /\ invCall' = InvCall("create", 0, NoUser, PendingFor(email, company), "conflict", "")
             /\ UNCHANGED <<now, tenancyVars, invVars>>
        ELSE /\ create_invitation(company, email, role, EffectiveExpiry(expires_at))
             /\ invCall' = InvCall("create", 0, NoUser, PendingFor(email, company), "created", "")

\* UserCompanyService.associate_user_with_company: the row it leaves
Associated(row) ==
    IF ~row.exists \/ row.is_deleted
      THEN [exists |-> TRUE, is_active |-> TRUE, is_deleted |-> FALSE]
      ELSE row

\* an expiry test that lets an invitation live one more lifetime
ExpiredAfterGrace(inv) == inv.expires_at + DEFAULT_EXPIRY_DAYS < now

\* accept_invitation's `if invitation.is_expired` (line 145)
AcceptExpired(inv) == is_expired(inv)

\* an email test that compares the two addresses as they are
EmailMatchesExactly(user, inv) == UserEmail(user) = inv.email

\* accept_invitation's email test (line 150), both sides lower-cased
EmailMatches(user, inv) == Lower(UserEmail(user)) = Lower(inv.email)

\* InvitationService.accept_invitation, start to end
accept_invitation(token, user) ==
    IF ~(token \in 1..Len(invitations) /\ invitations[token].status = "pending")
      THEN /\ invCall' = InvCall("accept", token, user, FALSE, "invalid", "")
           /\ UNCHANGED <<now, tenancyVars, invVars>>
      ELSE LET inv == invitations[token]
               c == inv.company
               r == inv.role
           IN IF AcceptExpired(inv)
                THEN /\ invitations' = [invitations EXCEPT ![token].status = "expired"]
                     /\ invCall' = InvCall("accept", token, user, FALSE, "expired", "")
                     /\ UNCHANGED <<now, tenancyVars, invLog, req>>
                ELSE IF ~EmailMatches(user, inv)
                  THEN /\ invCall' = InvCall("accept", token, user, FALSE, "email_mismatch", "")
                       /\ UNCHANGED <<now, tenancyVars, invVars>>
                  ELSE /\ uc' = [uc EXCEPT ![user][c] = Associated(@)]
                       /\ IF roles[r].company # NoCompany /\ roles[r].company # c
                            THEN /\ invCall' = InvCall("accept", token, user, FALSE, "role_mismatch", "")
                                 /\ UNCHANGED <<ucr, invitations>>
                            ELSE /\ ucr' = [ucr EXCEPT ![user][c][r] = [exists |-> TRUE, is_deleted |-> FALSE]]
                                 /\ invitations' = [invitations EXCEPT ![token].status = "accepted",
                                                                       ![token].accepted_by = user]
                                 /\ invCall' = InvCall("accept", token, user, FALSE, "accepted", "")
                       /\ UNCHANGED <<now, roles, invLog, req>>

\* a status test that stops only at revoked invitations
NotRevoked(inv) == inv.status # "revoked"

\* the status test of revoke_invitation and resend_invitation (lines 186, 207)
StatusPending(inv) == inv.status = "pending"

\* InvitationService.revoke_invitation on the row as loaded, with its refusal
revoke_invitation_call(pk) ==
    /\ pk \in 1..Len(invitations)
    /\ IF ~StatusPending(invitations[pk])
         THEN /\ invCall' = InvCall("revoke", pk, NoUser, FALSE, "cannot_revoke", invitations[pk].status)
              /\ UNCHANGED invitations
         ELSE /\ invitations' = [invitations EXCEPT ![pk].status = "revoked"]
              /\ invCall' = InvCall("revoke", pk, NoUser, FALSE, "revoked", "")
    /\ UNCHANGED <<now, tenancyVars, invLog, req>>

\* InvitationService.resend_invitation on the row as loaded, with its refusal
resend_invitation_call(pk) ==
    /\ pk \in 1..Len(invitations)
    /\ IF ~StatusPending(invitations[pk])
         THEN /\ invCall' = InvCall("resend", pk, NoUser, FALSE, "cannot_resend", invitations[pk].status)
              /\ UNCHANGED invitations
         ELSE /\ invitations' = [invitations EXCEPT ![pk].expires_at = default_expiry]
              /\ invCall' = InvCall("resend", pk, NoUser, FALSE, "resent", "")
    /\ UNCHANGED <<now, tenancyVars, invLog, req>>

(***************************************************************************)
(* Actions and specifications                                              *)
(***************************************************************************)
EmailInputs == {"a@x.io", "A@x.io"}
Identifiers == {"u1", "A@x.io", "ghost"}
Passwords == {"secret", "wrong"}

vars == <<now, roles, uc, ucr, invitations, invLog, req, acct, authLog, otps, otpLog,
          outstanding, blacklist, tokLog, twofa, sessions, vreq, tfaLog, rp, admLog, invCall, lreq, loginLog,
          oreq, tokCall, activity, overify, ucCall, aged>>

Init ==
    /\ now = 0
    /\ TenancyInit
    /\ InvInit
    /\ AuthInit
    /\ OtpInit
    /\ TokInit
    /\ TfaInit
    /\ AuxInit

\* what the invitation and tenancy operations leave alone
restInv == <<authVars, otpVars, tokVars, tfaVars, auxVars>>

CreateInvitation ==
    /\ \E c \in {1}, e \in EmailInputs, r \in {"r1"} : create_invitation(c, e, r, default_expiry)
    /\ UNCHANGED restInv
AcceptGet ==
    /\ \E p \in Procs, t \in 1..MaxInvitations, u \in Users : accept_get(p, t, u)
    /\ UNCHANGED restInv
MarkExpired ==
    /\ \E p \in Procs : mark_expired(p)
    /\ UNCHANGED restInv
AssociateGetOrCreate ==
    /\ \E p \in Procs : associate_get_or_create(p)
    /\ UNCHANGED restInv
AssociateReactivate ==
    /\ \E p \in Procs : associate_reactivate(p)
    /\ UNCHANGED restInv
AssignGetOrCreate ==
    /\ \E p \in Procs : assign_get_or_create(p)
    /\ UNCHANGED restInv
AssignUndelete ==
    /\ \E p \in Procs : assign_undelete(p)
    /\ UNCHANGED restInv
AcceptSave ==
    /\ \E p \in Procs : accept_save(p)
    /\ UNCHANGED restInv
RevokeInvitation ==
    /\ \E i \in 1..MaxInvitations : revoke_invitation(i)
    /\ UNCHANGED restInv
ResendInvitation ==
    /\ \E i \in 1..MaxInvitations : resend_invitation(i)
    /\ UNCHANGED restInv
TickInvitations ==
    /\ TickInv
    /\ UNCHANGED restInv
UpdateRole ==
    /\ \E c \in Companies : update_role("r1", c)
    /\ UNCHANGED <<now, invVars, restInv>>
RemoveUserFromCompany ==
    /\ \E c \in Companies : remove_user_from_company("u1", c)
    /\ UNCHANGED <<now, invVars, restInv>>
RemoveRoleFromUser ==
    /\ \E c \in Companies, r \in Roles : remove_role_from_user("u1", c, r)
    /\ UNCHANGED <<now, invVars, restInv>>

NextInv ==
    \/ CreateInvitation \/ AcceptGet \/ MarkExpired
    \/ AssociateGetOrCreate \/ AssociateReactivate
    \/ AssignGetOrCreate \/ AssignUndelete \/ AcceptSave
    \/ RevokeInvitation \/ ResendInvitation \/ TickInvitations
    \/ UpdateRole \/ RemoveUserFromCompany \/ RemoveRoleFromUser

SpecInv == Init /\ [][NextInv]_vars

\* the tenancy graph under its service operations, each one whole
AssociateUser ==
    /\ \E c \in Companies : associate_user_with_company("u1", c)
    /\ UNCHANGED <<now, invVars, restInv>>
UpdateUserCompany ==
    /\ \E c \in Companies, a \in BOOLEAN : update_user_company("u1", c, a)
    /\ UNCHANGED <<now, invVars, restInv>>
AssignRole ==
    /\ \E c \in Companies, r \in Roles : assign_role_to_user("u1", c, r)
    /\ UNCHANGED <<now, invVars, restInv>>
RenameRole ==
    /\ \E name \in {"employee", "ADMIN"} : update_role_name("r2", name)
    /\ UNCHANGED <<now, invVars, restInv>>
SoftDeleteRole ==
    /\ \E r \in Roles : soft_delete_role(r)
    /\ UNCHANGED <<now, invVars, restInv>>

NextAdmin ==
    \/ AssociateUser \/ UpdateUserCompany \/ AssignRole
    \/ RemoveUserFromCompany \/ RemoveRoleFromUser
    \/ UpdateRole \/ RenameRole \/ SoftDeleteRole

SpecAdmin == Init /\ [][NextAdmin]_vars

\* password authentication over time
AuthenticateUser ==
    /\ \E id \in Identifiers, pw \in Passwords : authenticate_user(id, pw)
    /\ UNCHANGED <<tenancyVars, auxVars, invVars, otpVars, tokVars, tfaVars>>
TickAuth ==
    /\ TickAuthStep
    /\ UNCHANGED <<tenancyVars, auxVars, invVars, otpVars, tokVars, tfaVars>>

NextAuth == AuthenticateUser \/ TickAuth

SpecAuth == Init /\ [][NextAuth]_vars

\* the OTP challenge over time
CreateOtp ==
    /\ \E ph \in Phones, code \in OtpCodes : create_otp(ph, code)
    /\ UNCHANGED <<tenancyVars, auxVars, invVars, authVars, tokVars, tfaVars>>
VerifyOtp ==
    /\ \E ph \in Phones, code \in OtpCodes : verify_otp(ph, code)
    /\ UNCHANGED <<tenancyVars, auxVars, invVars, authVars, tokVars, tfaVars>>
DeleteOtp ==
    /\ \E ph \in Phones : delete_otp(ph)
    /\ UNCHANGED <<tenancyVars, auxVars, invVars, authVars, tokVars, tfaVars>>
TickOtp ==
    /\ TickOtpStep
    /\ UNCHANGED <<tenancyVars, auxVars, invVars, authVars, tokVars, tfaVars>>

NextOtp == CreateOtp \/ VerifyOtp \/ DeleteOtp \/ TickOtp

SpecOtp == Init /\ [][NextOtp]_vars

\* the token service over time
GenerateTokens ==
    /\ \E u \in Users : generate_tokens(u)
    /\ UNCHANGED <<tenancyVars, auxVars, invVars, authVars, otpVars, tfaVars>>
RefreshAccessToken ==
    /\ \E t \in 1..MaxTokens : refresh_access_token(t)
    /\ UNCHANGED <<tenancyVars, auxVars, invVars, authVars, otpVars, tfaVars>>
BlacklistToken ==
    /\ \E t \in 1..MaxTokens : blacklist_token(t)
    /\ UNCHANGED <<tenancyVars, auxVars, invVars, authVars, otpVars, tfaVars>>
TickTok ==
    /\ TickTokStep
    /\ UNCHANGED <<tenancyVars, auxVars, invVars, authVars, otpVars, tfaVars>>

NextToken == GenerateTokens \/ RefreshAccessToken \/ BlacklistToken \/ TickTok

SpecToken == Init /\ [][NextToken]_vars

\* two-factor login: LoginView and enable_2fa whole, the two verifications
\* statement by statement in concurrent workers
restTfa == <<tenancyVars, invVars, authLog, otpVars, tokVars, auxVars>>
BackupInputs == {1}
TotpInputs == {[secret |-> g, at |-> t] : g \in 1..MaxEnables, t \in {now, now - SESSION_MINUTES}}

Enable2FA ==
    /\ \E u \in {"u1"} : enable_2fa(u)
    /\ UNCHANGED restTfa
LoginPost ==
    /\ \E id \in {"u1"}, pw \in Passwords : login_post(id, pw)
    /\ UNCHANGED restTfa
Verify2FASessionCheck ==
    /\ \E p \in Procs, sid \in 1..MaxSessions, code \in TotpInputs : verify_2fa_session_check(p, sid, code)
    /\ UNCHANGED restTfa
Verify2FABackupSessionCheck ==
    /\ \E p \in Procs, sid \in 1..MaxSessions, code \in BackupInputs :
          verify_2fa_backup_session_check(p, sid, code)
    /\ UNCHANGED restTfa
SaveBackupCodes ==
    /\ \E p \in Procs : save_backup_codes(p)
    /\ UNCHANGED restTfa
MarkVerified ==
    /\ \E p \in Procs : mark_verified(p)
    /\ UNCHANGED restTfa
TickTfa ==
    /\ TickTfaStep
    /\ UNCHANGED restTfa

Next2FA ==
    \/ Enable2FA \/ LoginPost
    \/ Verify2FASessionCheck \/ Verify2FABackupSessionCheck
    \/ SaveBackupCodes \/ MarkVerified \/ TickTfa

Spec2FA == Init /\ [][Next2FA]_vars

\* the tenancy graph under its service operations, with the admin grants
\* withdrawn and not granted again kept track of
restGrant == <<now, invVars, authVars, otpVars, tokVars, tfaVars, rp, invCall, moreVars>>

GrantAssociateUser ==
    /\ \E c \in Companies : associate_user_with_company("u1", c)
    /\ UNCHANGED <<admLog, restGrant>>
GrantUpdateUserCompany ==
    /\ \E c \in Companies, a \in BOOLEAN : update_user_company("u1", c, a)
    /\ UNCHANGED <<admLog, restGrant>>
GrantAssignRole ==
    /\ \E c \in Companies, r \in Roles :
          /\ \/ assign_role_to_user("u1", c, r)
             \/ /\ uc["u1"][c].exists
                /\ ~(roles[r].company # NoCompany /\ roles[r].company # c)
                /\ ucr["u1"][c][r].exists /\ ~ucr["u1"][c][r].is_deleted
                /\ UNCHANGED tenancyVars
          /\ admLog' = [admLog EXCEPT !["u1"][c] = FALSE]
    /\ UNCHANGED restGrant
GrantRemoveUserFromCompany ==
    /\ \E c \in Companies :
          /\ remove_user_from_company("u1", c)
          /\ admLog' = [admLog EXCEPT !["u1"][c] = TRUE]
    /\ UNCHANGED restGrant
GrantRemoveRoleFromUser ==
    /\ \E c \in Companies, r \in Roles :
          /\ remove_role_from_user("u1", c, r)
          /\ admLog' = [admLog EXCEPT !["u1"][c] = @ \/ OnlyAdminGrant("u1", c, r)]
    /\ UNCHANGED restGrant
GrantSoftDeleteRole ==
    /\ \E r \in Roles :
          /\ soft_delete_role(r)
          /\ admLog' = [u \in Users |-> [c \in Companies |-> admLog[u][c] \/ OnlyAdminGrant(u, c, r)]]
    /\ UNCHANGED restGrant
GrantUpdateRole ==
    /\ \E c \in Companies : update_role("r1", c)
    /\ UNCHANGED <<admLog, restGrant>>
GrantRenameRole ==
    /\ \E name \in {"employee", "ADMIN"} : update_role_name("r2", name)
    /\ UNCHANGED <<admLog, restGrant>>

NextGrant ==
    \/ GrantAssociateUser \/ GrantUpdateUserCompany \/ GrantAssignRole
    \/ GrantRemoveUserFromCompany \/ GrantRemoveRoleFromUser \/ GrantSoftDeleteRole
    \/ GrantUpdateRole \/ GrantRenameRole

SpecGrant == Init /\ [][NextGrant]_vars

\* role permissions under their service operations
restRp == <<now, tenancyVars, invVars, authVars, otpVars, tokVars, tfaVars, admLog, invCall, moreVars>>

AssignPermission ==
    /\ \E r \in Roles, p \in Permissions, g \in BOOLEAN : assign_permission_to_role(r, p, g)
    /\ UNCHANGED restRp
UpdateRolePermission ==
    /\ \E i \in 1..MaxRolePermissions, g \in BOOLEAN : update_role_permission(i, g)
    /\ UNCHANGED restRp
RemovePermission ==
    /\ \E i \in 1..MaxRolePermissions : remove_permission_from_role(i)
    /\ UNCHANGED restRp

NextRolePerm == AssignPermission \/ UpdateRolePermission \/ RemovePermission

SpecRolePerm == Init /\ [][NextRolePerm]_vars

\* invitation calls one at a time, each from start to end
restCall == <<authVars, otpVars, tokVars, tfaVars, rp, admLog, moreVars>>

\* expires_at as sent to InvitationCreateView: none, or a time that
\* InvitationSerializer.validate_expires_at lets through (a future one)
ExpiryInputs == {NoTime, 2 * DEFAULT_EXPIRY_DAYS}

CreateCall ==
    /\ \E c \in {1}, e \in EmailInputs, r \in {"r1"}, x \in ExpiryInputs :
          /\ x = NoTime \/ x > now
          /\ create_invitation_call(c, e, r, x)
    /\ UNCHANGED restCall
AcceptCall ==
    /\ \E t \in 1..MaxInvitations, u \in Users : accept_invitation(t, u)
    /\ UNCHANGED restCall
RevokeCall ==
    /\ \E i \in 1..MaxInvitations : revoke_invitation_call(i)
    /\ UNCHANGED restCall
ResendCall ==
    /\ \E i \in 1..MaxInvitations : resend_invitation_call(i)
    /\ UNCHANGED restCall

NextInvSeq ==
    \/ CreateCall \/ AcceptCall \/ RevokeCall \/ ResendCall
    \/ TickInvitations \/ UpdateRole \/ RemoveUserFromCompany

SpecInvSeq == Init /\ [][NextInvSeq]_vars

\* password logins by two workers over time
restLogin == <<tenancyVars, invVars, otpVars, tokVars, tfaVars, rp, admLog, invCall, oreq, tokCall, activity,
               overify, ucCall, aged>>

AuthenticateRead ==
    /\ \E p \in Procs, id \in Identifiers, pw \in Passwords : authenticate_read(p, id, pw)
    /\ UNCHANGED restLogin
LoginRead ==
    /\ \E p \in Procs, id \in Identifiers, pw \in Passwords : login_read(p, id, pw)
    /\ UNCHANGED restLogin
FailureSave ==
    /\ \E p \in Procs : failure_save(p)
    /\ UNCHANGED restLogin
TickLogin ==
    /\ TickAuthStep
    /\ UNCHANGED <<moreVars, restLogin>>

NextLogin == AuthenticateRead \/ LoginRead \/ FailureSave \/ TickLogin

SpecLogin == Init /\ [][NextLogin]_vars

\* the OTP service with create_otp calls that overlap
restOtpRace == <<tenancyVars, invVars, authVars, tokVars, tfaVars, rp, admLog, invCall, lreq, loginLog,
                tokCall, activity, overify, ucCall, aged>>

CreateOtpDelete ==
    /\ \E p \in Procs, ph \in Phones, code \in OtpCodes : create_otp_delete(p, ph, code)
    /\ UNCHANGED restOtpRace
CreateOtpInsert ==
    /\ \E p \in Procs : create_otp_insert(p)
    /\ UNCHANGED restOtpRace

NextOtpRace == CreateOtpDelete \/ CreateOtpInsert \/ VerifyOtp \/ DeleteOtp \/ TickOtp

SpecOtpRace == Init /\ [][NextOtpRace]_vars

\* refresh and logout calls on every token string, valid or not
restTokCall == <<tenancyVars, invVars, authVars, otpVars, tfaVars, rp, admLog, invCall, lreq, loginLog, oreq,
                 activity, overify, ucCall, aged>>

RefreshCall ==
    /\ \E t \in 0..MaxTokens : refresh_access_token_call(t)
    /\ UNCHANGED restTokCall
BlacklistCall ==
    /\ \E t \in 0..MaxTokens : blacklist_token_call(t)
    /\ UNCHANGED restTokCall

NextTokCall == GenerateTokens \/ RefreshCall \/ BlacklistCall \/ TickTok

SpecTokCall == Init /\ [][NextTokCall]_vars

\* login requests one at a time, each issuing request whole
restIssue == <<tenancyVars, invVars, authLog, otpVars, rp, admLog, invCall, lreq, loginLog, oreq, tokCall,
               overify, ucCall, aged>>

IssueEnable2FA ==
    /\ \E u \in {"u1"} : enable_2fa(u)
    /\ UNCHANGED <<tokVars, activity, restIssue>>
IssueLoginPost ==
    /\ \E id \in Identifiers, pw \in Passwords : LoginView_post(id, pw)
    /\ UNCHANGED restIssue
IssueVerifyCode ==
    /\ \E sid \in 1..MaxSessions, code \in TotpInputs : verify_2fa_session_check("p1", sid, code)
    /\ UNCHANGED <<tokVars, activity, restIssue>>
IssueVerifyBackup ==
    /\ \E sid \in 1..MaxSessions, code \in BackupInputs : verify_2fa_backup_session_check("p1", sid, code)
    /\ UNCHANGED <<tokVars, activity, restIssue>>
IssueSaveBackupCodes ==
    /\ save_backup_codes("p1")
    /\ UNCHANGED <<tokVars, activity, restIssue>>
IssueTokens ==
    /\ TwoFAVerifyView_issue("p1")
    /\ UNCHANGED restIssue
TickIssue ==
    /\ TickTfaStep
    /\ UNCHANGED <<tokVars, activity, restIssue>>

NextIssue ==
    \/ IssueEnable2FA \/ IssueLoginPost
    \/ IssueVerifyCode \/ IssueVerifyBackup
    \/ IssueSaveBackupCodes \/ IssueTokens \/ TickIssue

SpecIssue == Init /\ [][NextIssue]_vars


\* 2FA enabled again while backup-code verifications are under way: the
\* verification statement by statement in concurrent workers, enable_2fa whole
OldAndNewBackupCodes == {(g - 1) * BACKUP_CODE_COUNT + 1 : g \in 1..(MaxEnables + 1)}

ReEnable2FA ==
    /\ \E u \in {"u1"} : enable_2fa_upto(u, MaxEnables + 1)
    /\ UNCHANGED restTfa
ReEnableLoginPost ==
    /\ login_post("u1", Password("u1"))
    /\ UNCHANGED restTfa
ReEnableBackupCheck ==
    /\ \E p \in Procs, sid \in 1..MaxSessions, code \in OldAndNewBackupCodes :
          verify_2fa_backup_session_check(p, sid, code)
    /\ UNCHANGED restTfa
ReEnableSaveBackupCodes ==
    /\ \E p \in Procs : save_backup_codes(p)
    /\ UNCHANGED restTfa
ReEnableMarkVerified ==
    /\ \E p \in Procs : mark_verified(p)
    /\ UNCHANGED restTfa

NextReEnable ==
    \/ ReEnable2FA \/ ReEnableLoginPost \/ ReEnableBackupCheck
    \/ ReEnableSaveBackupCodes \/ ReEnableMarkVerified

SpecReEnable == Init /\ [][NextReEnable]_vars


\* the tenancy graph of two users, seen through the UserCompany views
VisAssociateUser ==
    /\ \E u \in Users, c \in Companies : associate_user_with_company(u, c)
    /\ UNCHANGED <<now, invVars, restInv>>
VisUpdateUserCompany ==
    /\ \E u \in Users, c \in Companies, a \in BOOLEAN : update_user_company(u, c, a)
    /\ UNCHANGED <<now, invVars, restInv>>
VisAssignRole ==
    /\ \E c \in Companies, r \in Roles : assign_role_to_user("u1", c, r)
    /\ UNCHANGED <<now, invVars, restInv>>
VisRemoveUserFromCompany ==
    /\ \E u \in Users, c \in Companies : remove_user_from_company(u, c)
    /\ UNCHANGED <<now, invVars, restInv>>
VisRemoveRoleFromUser ==
    /\ \E c \in Companies, r \in Roles : remove_role_from_user("u1", c, r)
    /\ UNCHANGED <<now, invVars, restInv>>

NextVisibility ==
    \/ VisAssociateUser \/ VisUpdateUserCompany \/ VisAssignRole
    \/ VisRemoveUserFromCompany \/ VisRemoveRoleFromUser

SpecVisibility == Init /\ [][NextVisibility]_vars


\* concurrent verify_otp calls; OTPs are created and deleted between them
restOtpVerify == <<tenancyVars, invVars, authVars, tokVars, tfaVars, rp, admLog, invCall, lreq, loginLog,
                  oreq, tokCall, activity, ucCall, aged>>

RaceCreateOtp ==
    /\ NoVerifyInFlight
    /\ \E ph \in Phones, code \in {"111111"} : create_otp(ph, code)
    /\ UNCHANGED <<overify, restOtpVerify>>
RaceDeleteOtp ==
    /\ NoVerifyInFlight
    /\ \E ph \in Phones : delete_otp(ph)
    /\ UNCHANGED <<overify, restOtpVerify>>
VerifyOtpCompare ==
    /\ \E p \in Procs, ph \in Phones, code \in OtpCodes : verify_otp_compare(p, ph, code)
    /\ UNCHANGED restOtpVerify
VerifyOtpSave ==
    /\ \E p \in Procs : verify_otp_save(p)
    /\ UNCHANGED restOtpVerify
VerifyOtpReturn ==
    /\ \E ph \in Phones, code \in OtpCodes : verify_otp_return(ph, code)
    /\ UNCHANGED <<overify, restOtpVerify>>
TickOtpVerify ==
    /\ TickOtpStep
    /\ UNCHANGED <<overify, restOtpVerify>>

NextOtpVerify ==
    \/ RaceCreateOtp \/ RaceDeleteOtp \/ VerifyOtpCompare
    \/ VerifyOtpSave \/ VerifyOtpReturn \/ TickOtpVerify

SpecOtpVerify == Init /\ [][NextOtpVerify]_vars


\* the login endpoint on accounts that authenticate_user has locked
NextLockedLogin == AuthenticateUser \/ TickAuth \/ IssueEnable2FA \/ IssueLoginPost

SpecLockedLogin == Init /\ [][NextLockedLogin]_vars


\* invitations accepted by a user whose membership and grants in the company
\* are removed, deactivated and soft-deleted in between
ReCreateCall ==
    /\ \E r \in Roles : create_invitation_call(1, "a@x.io", r, NoTime)
    /\ UNCHANGED restCall

NextReassociate ==
    \/ ReCreateCall \/ AcceptCall
    \/ RemoveUserFromCompany \/ UpdateUserCompany
    \/ RemoveRoleFromUser \/ SoftDeleteRole

SpecReassociate == Init /\ [][NextReassociate]_vars


\* two users' memberships under the admin-only UserCompany endpoints
restUcCall == <<now, invVars, authVars, otpVars, tokVars, tfaVars, rp, admLog, invCall, lreq, loginLog,
               oreq, tokCall, activity, overify, aged>>

UcDelete ==
    /\ \E caller \in Users, data \in {""}, query \in CompanyParams, u \in Users, c \in Companies :
          UserCompanyDeleteView_destroy(caller, data, query, u, c)
    /\ UNCHANGED restUcCall
UcUpdate ==
    /\ \E caller \in Users, data \in {""}, query \in CompanyParams, u \in Users, c \in Companies, a \in BOOLEAN :
          UserCompanyUpdateView_update(caller, data, query, u, c, a)
    /\ UNCHANGED restUcCall

NextUcCall == VisAssociateUser \/ VisAssignRole \/ UcDelete \/ UcUpdate

SpecUcCall == Init /\ [][NextUcCall]_vars


\* invitation calls one at a time while invitations age past their expiry
TickAged ==
    /\ TickInv
    /\ aged' = aged \cup {i \in 1..Len(invitations) :
                            invitations[i].status = "pending" /\ invitations[i].expires_at < now'}
    /\ UNCHANGED <<authVars, otpVars, tokVars, tfaVars, rp, admLog, invCall, lreq, loginLog, oreq, tokCall,
                   activity, overify, ucCall>>

NextAged == CreateCall \/ AcceptCall \/ RevokeCall \/ ResendCall \/ TickAged

SpecAged == Init /\ [][NextAged]_vars


(***************************************************************************)
(* Properties                                                              *)
(***************************************************************************)

\* C1: of the accept_invitation calls made with one invitation's token by a
\* user whose email matches, at most one returns the (UserCompany,
\* UserCompanyRole) pair, whatever the interleaving.
AcceptedAtMostOnce ==
    \A i \in 1..Len(invLog) : invLog[i].returned <= 1

\* C2: accept_invitation is all-or-nothing: whenever no accept of invitation i
\* is in flight, the association and the grant made for it are in place
\* exactly when the invitation is accepted with accepted_by set.
AcceptAllOrNothing ==
    \A i \in 1..Len(invitations) :
        (\A p \in Procs : req[p].pc = "idle" \/ req[p].id # i) =>
            LET accepted == invitations[i].status = "accepted" /\ invitations[i].accepted_by # NoUser
            IN /\ invLog[i].assoc = accepted
               /\ invLog[i].grant = accepted

\* C3: no two pending invitations share the stored (lower-cased) email and the
\* company, whatever the letter case create_invitation was given.
OnePendingPerEmailAndCompany ==
    \A i, j \in 1..Len(invitations) :
        (/\ i # j
         /\ invitations[i].status = "pending"
         /\ invitations[j].status = "pending"
         /\ invitations[i].company = invitations[j].company)
            => invitations[i].email # invitations[j].email

\* C4: a call that follows 5 consecutive failed authenticate_user calls is
\* rejected, correct password or not, while fewer than 30 minutes have passed
\* since the lock was set; at 30 minutes or later a call with the correct
\* password succeeds and leaves failed_login_attempts at 0.
LockoutAfterFiveFailures ==
    LET l == authLog.last
    IN /\ \A u \in Users : authLog.streak[u] >= 5 => authLog.lockAt[u] # NoTime
       /\ (l.user # NoUser /\ l.preStreak >= 5) =>
             /\ l.at < l.preLockAt + 30 => l.result = "none"
             /\ (l.at >= l.preLockAt + 30 /\ l.pwOk) => (l.result = "user" /\ l.postAttempts = 0)

\* a correct password was turned down during the lock, and: the first correct
\* password after it was let in
RejectedWhileLocked ==
    LET l == authLog.last
    IN l.user # NoUser /\ l.preStreak >= 5 /\ l.pwOk /\ l.result = "none"
AdmittedAfterLock ==
    LET l == authLog.last
    IN l.user # NoUser /\ l.preStreak >= 5 /\ l.pwOk /\ l.result = "user" /\ l.postAttempts = 0

\* C5: an OTP row is blocked exactly when 3 wrong codes have been counted
\* against it (not with fewer), the block then ends 15 minutes after the third;
\* a verify_otp made during the block fails, correct code or not, with the
\* reason a verify of an expired or of a missing row gives.
BlockedAtThirdWrongCode ==
    /\ \A ph \in Phones : HasOtp(ph) =>
          LET o == otps[get_otp(ph)]
          IN /\ otpLog.wrongs[ph] <= 3
             /\ o.is_blocked <=> otpLog.wrongs[ph] = 3
             /\ o.is_blocked => o.blocked_until = otpLog.wrongAt[ph] + 15
    /\ otpLog.last.pre \in {"blocked", "expired", "missing"} =>
          (~otpLog.last.ok /\ otpLog.last.reason = "OTP_EXPIRED")
    /\ otpLog.last.pre = "live" =>
          /\ otpLog.last.ok <=> otpLog.last.codeOk
          /\ ~otpLog.last.ok => otpLog.last.reason = "INCORRECT_OTP"

\* the correct code was presented during a block and turned down
CorrectCodeDuringBlock ==
    /\ otpLog.last.pre = "blocked"
    /\ otpLog.last.codeOk
    /\ ~otpLog.last.ok

\* C6: a refresh token refreshes at most once: after the first successful
\* refresh_access_token(r) every later one with the same r fails.
RefreshTokenUsedOnce ==
    \A t \in 1..Len(tokLog) : tokLog[t] <= 1

\* C7: for every 2FA login session at most one call among the
\* verify_2fa_session and verify_2fa_backup_session calls on it returns a user.
SessionVerifiedOnce ==
    \A s \in 1..Len(sessions) : tfaLog.sessOk[s] <= 1

\* C8: a backup code leads to at most one successful
\* verify_2fa_backup_session across the user's sessions: as long as no session
\* has been verified twice, no backup code has been accepted twice.
BackupCodeUsedOnce ==
    (\A s \in 1..Len(sessions) : tfaLog.sessOk[s] <= 1)
        => \A k \in DOMAIN tfaLog.codeOk : tfaLog.codeOk[k] <= 1

\* C9: tokens are issued after a valid password only; for a user with 2FA
\* enabled they are issued by a code or backup-code verification whose session
\* was, when the verification looked it up, at most 5 minutes old, not yet
\* verified and created for that user by a login with the valid password, and
\* whose code matched; the password step of such a user returns a session and
\* no tokens.
TokensOnlyAfterSecondFactor ==
    LET i == tfaLog.lastIssue
        l == tfaLog.lastLogin
    IN /\ i.user # NoUser =>
            /\ i.byPassword
            /\ i.via = "password" => ~i.twofa
            /\ i.via # "password" =>
                  /\ i.via \in {"code", "backup"}
                  /\ i.fresh /\ i.unverified /\ i.matched
                  /\ i.owner = i.user
       /\ (l.user # NoUser /\ l.twofa) => (l.session \in 1..Len(sessions) /\ ~l.tokens)
       /\ (l.user # NoUser /\ ~l.twofa) => (l.session = 0 /\ l.tokens)
       /\ \A s \in 1..Len(sessions) :
             /\ tfaLog.sessPw[s]
             /\ tfaLog.sessOk[s] > 0 => sessions[s].is_verified

\* tokens were issued by a verification, and a session has gone stale unverified
TokensAfterChallenge ==
    /\ tfaLog.lastIssue.via \in {"code", "backup"}
    /\ tfaLog.lastIssue.twofa
    /\ \E s \in 1..Len(sessions) :
          /\ now - sessions[s].created_at > 5
          /\ ~sessions[s].is_verified
          /\ tfaLog.sessOk[s] = 0

\* C10: for every user u and company c each of the admin checks holds exactly
\* when (u, c) has an active, not deleted UserCompany row with a not deleted
\* UserCompanyRole to a not deleted Role named 'admin' in any letter case; so
\* the checks agree.
AdminGrant(u, c) ==
    /\ uc[u][c].exists /\ uc[u][c].is_active /\ ~uc[u][c].is_deleted
    /\ \E r \in Roles :
          /\ ucr[u][c][r].exists /\ ~ucr[u][c][r].is_deleted
          /\ ~roles[r].is_deleted
          /\ roles[r].role \in {"admin", "Admin", "ADMIN"}

AdminChecksAgree ==
    \A u \in Users, c \in Companies :
        /\ IsAdminUser_has_permission(u, CompanyStr(c), "") = [raised |-> FALSE, allowed |-> AdminGrant(u, c)]
        /\ IsAdminUser_has_permission(u, "", CompanyStr(c)) = [raised |-> FALSE, allowed |-> AdminGrant(u, c)]
        /\ is_company_admin(u, c) = AdminGrant(u, c)
        /\ IsCompanyAdmin_has_permission(u, CompanyStr(c), "", "") = AdminGrant(u, c)
        /\ IsCompanyAdmin_has_permission(u, "", CompanyStr(c), "") = AdminGrant(u, c)
        /\ IsCompanyAdmin_has_permission(u, "", "", CompanyStr(c)) = AdminGrant(u, c)
        /\ IsCompanyAdmin_has_object_permission(u, c) = AdminGrant(u, c)

\* an admin of company 1 who holds, in company 2, only grants that do not count
AdminOfOneCompanyOnly ==
    /\ is_company_admin("u1", 1)
    /\ ~is_company_admin("u1", 2)
    /\ uc["u1"][2].exists
    /\ \E r \in Roles : ucr["u1"][2][r].exists /\ Lower(roles[r].role) = "admin"

\* C11: once a user's only admin grant in a company is soft-deleted, or the
\* user's UserCompany row for the company is removed, or the admin Role is
\* soft-deleted, the user is not an admin of the company in any later state
\* until a grant operation is performed for the user in the company
WithdrawnAdminStaysWithdrawn ==
    \A u \in Users, c \in Companies : admLog[u][c] => ~is_company_admin(u, c)

\* C12: IsAdminUser.has_permission never raises, whatever the company value
\* sent in the body or in the query, and answers false when the lookup fails
AdminCheckFailsClosed ==
    \A u \in Users, data \in CompanyParams, query \in CompanyParams :
        /\ ~IsAdminUser_has_permission(u, data, query).raised
        /\ (data = "x" \/ (data = "" /\ query \in {"", "x"})) =>
               ~IsAdminUser_has_permission(u, data, query).allowed

\* C13: every UserCompanyRole that is not deleted references a Role whose
\* company is null or the company of its UserCompany
GrantedRoleFitsCompany ==
    \A u \in Users, c \in Companies, r \in Roles :
        (ucr[u][c][r].exists /\ ~ucr[u][c][r].is_deleted) =>
            roles[r].company \in {NoCompany, c}

\* C14: there is at most one RolePermission row for every role and permission,
\* and assign_permission_to_role leaves exactly one row for its pair, not
\* deleted, whatever the state of the pair before (never granted, granted,
\* soft-deleted)
RowsFor(table, r, p) == {i \in 1..Len(table) : table[i].role = r /\ table[i].permission = p}

OneRowPerRoleAndPermission ==
    \A r \in Roles, p \in Permissions :
        /\ Cardinality(RowsFor(rp, r, p)) <= 1
        /\ \A g \in BOOLEAN :
              LET t == AssignedTable(r, p, g)
              IN /\ Cardinality(RowsFor(t, r, p)) = 1
                 /\ \A i \in RowsFor(t, r, p) : ~t[i].is_deleted

\* a pair granted, soft-deleted and granted again (deleted_at keeps the time of
\* the removal), next to a pair that is soft-deleted now
RegrantedAfterRemoval ==
    \E i, j \in 1..Len(rp) :
        /\ ~rp[i].is_deleted /\ rp[i].deleted_at # NoTime
        /\ RowsFor(rp, rp[i].role, rp[i].permission) = {i}
        /\ rp[j].is_deleted

\* C15: an invitation that is accepted, expired or revoked keeps its status in
\* every step, whatever the interleaving of accept, revoke, resend and expiry
TerminalStatusKept ==
    [][\A i \in 1..Len(invitations) :
          invitations[i].status \in {"accepted", "expired", "revoked"} =>
              invitations'[i].status = invitations[i].status]_vars

\* a step that is a call of the operation on an invitation there is
CallOn(op) ==
    /\ invCall'.seq # invCall.seq
    /\ invCall'.op = op
    /\ invCall'.id \in 1..Len(invitations)

\* C16: while an invitation for an email and a company is pending, a further
\* create_invitation for the same email and company fails and creates nothing
DuplicateCreateRefused ==
    [][(invCall'.seq # invCall.seq /\ invCall'.op = "create" /\ invCall'.dup) =>
           (invCall'.result # "created" /\ invitations' = invitations)]_vars

\* C17: accept_invitation on a pending invitation whose expires_at is in the
\* past fails, leaves the invitation expired and leaves every UserCompany and
\* UserCompanyRole as it was
ExpiredAcceptRefused ==
    [][(/\ CallOn("accept")
        /\ invitations[invCall'.id].status = "pending"
        /\ invitations[invCall'.id].expires_at < now) =>
           (/\ invCall'.result = "expired"
            /\ invitations'[invCall'.id].status = "expired"
            /\ uc' = uc
            /\ ucr' = ucr)]_vars

\* the invited user was refused because the invitation had expired
AcceptOfExpiredInvitation ==
    /\ invCall.op = "accept" /\ invCall.result = "expired"
    /\ invitations[invCall.id].status = "expired"
    /\ invitations[invCall.id].expires_at < now
    /\ Lower(UserEmail(invCall.user)) = invitations[invCall.id].email
    /\ ~uc[invCall.user][invitations[invCall.id].company].exists

TerminalInvitationRefused ==
    [][\A op \in {"revoke", "resend"} :
          (CallOn(op) /\ invitations[invCall'.id].status \in {"accepted", "expired", "revoked"}) =>
              (/\ invCall'.result = (IF op = "revoke" THEN "cannot_revoke" ELSE "cannot_resend")
               /\ invCall'.named = invitations[invCall'.id].status
               /\ invitations' = invitations)]_vars

\* a resend refused on an expired invitation and a revoke refused on an accepted one
RefusedOnTerminal ==
    \/ /\ invCall.op = "resend" /\ invCall.result = "cannot_resend" /\ invCall.named = "expired"
       /\ invitations[invCall.id].status = "expired"
       /\ \E i \in 1..Len(invitations) : invitations[i].status = "accepted"
    \/ /\ invCall.op = "revoke" /\ invCall.result = "cannot_revoke" /\ invCall.named = "accepted"
       /\ invitations[invCall.id].status = "accepted"
       /\ \E i \in 1..Len(invitations) : invitations[i].status = "expired"

\* C20: resend_invitation on a pending invitation keeps it pending and never
\* makes its expires_at earlier
ResendExtendsExpiry ==
    [][(CallOn("resend") /\ invitations[invCall'.id].status = "pending") =>
           (/\ invitations'[invCall'.id].status = "pending"
            /\ invitations'[invCall'.id].expires_at >= invitations[invCall'.id].expires_at)]_vars

\* a step in which worker p ends a failed login attempt with its write
FailedAttemptEnds(p) == lreq[p].pc = "save" /\ lreq'[p].pc = "idle"

\* C21: a failed login attempt on an account that is locked when the attempt
\* reads it leaves the persisted failed_login_attempts and locked_until as
\* they are, in authenticate_user and in LoginView.post
LockedAttemptChangesNothing ==
    [][\A p \in Procs :
          (FailedAttemptEnds(p) /\ lreq[p].locked) =>
              acct'[lreq[p].user] = acct[lreq[p].user]]_vars

\* C22: what authenticate_user returns on a locked account differs from what
\* it returns for an unknown identifier and for a wrong password
LockedOutcomeDistinct ==
    (loginLog.op = "authenticate" /\ loginLog.cause = "locked") =>
        loginLog.result \notin {Outcome("authenticate", "unknown"),
                                Outcome("authenticate", "wrong_password")}

\* C23: a successful authentication (authenticate_user returning the user,
\* LoginView accepting the password) leaves failed_login_attempts at 0 and
\* locked_until cleared
SuccessResetsLockout ==
    [][(loginLog'.seq # loginLog.seq /\ loginLog'.cause = "ok") =>
           acct'[loginLog'.user] = [failed_login_attempts |-> 0, locked_until |-> NoTime]]_vars

\* C30: every failed attempt that read the account unlocked raises the
\* persisted counter by one or leaves the account locked, so that n of them
\* leave the counter at c + n or the account locked
NoLostIncrement ==
    [][\A p \in Procs :
          (FailedAttemptEnds(p) /\ ~lreq[p].locked) =>
              LET u == lreq[p].user
              IN \/ acct'[u].failed_login_attempts = acct[u].failed_login_attempts + 1
                 \/ acct'[u].locked_until # NoTime /\ acct'[u].locked_until > now]_vars

OneOtpPerPhone ==
    \A ph \in Phones : Cardinality({i \in 1..Len(otps) : otps[i].phone_number = ph}) <= 1

\* C26: blacklist_token returns true and blacklists a refresh token that is
\* issued, unexpired and not revoked, and returns false leaving the blacklist
\* unchanged for any other string; refresh_access_token fails with a token
\* error on every token blacklisted before
BlacklistTokenTotal ==
    [][(tokCall'.seq # tokCall.seq) =>
          LET t == tokCall'.token
              valid == /\ t \in 1..Len(outstanding)
                       /\ now < outstanding[t].exp
                       /\ t \notin blacklist
          IN /\ tokCall'.op = "blacklist" =>
                   IF valid THEN tokCall'.result = "true" /\ blacklist' = blacklist \cup {t}
                   ELSE tokCall'.result = "false" /\ blacklist' = blacklist
             /\ (tokCall'.op = "refresh" /\ t \in blacklist) => tokCall'.result = "token_error"]_vars

\* a refresh turned down for a token that is unexpired and blacklisted, next
\* to a token that is not blacklisted
RefreshAfterLogout ==
    /\ tokCall.op = "refresh" /\ tokCall.result = "token_error"
    /\ tokCall.token \in blacklist
    /\ outstanding[tokCall.token].exp > now
    /\ \E t \in 1..Len(outstanding) : t \notin blacklist

BackupCodesOfLatestEnable ==
    \A u \in Users : twofa[u].backup_codes \subseteq generate_backup_codes(twofa[u].two_fa_secret)

\* C29: a row of another user that the UserCompany list or retrieve view
\* hands to a requester belongs to a company in which the requester holds a
\* live admin grant.
ForeignRowsOnlyWhereAdmin ==
    \A u \in Users, user_id \in Users \cup {NoUser}, company_id \in Companies \cup {NoCompany} :
        \A row \in UserCompanyListView_get_queryset(u, user_id, company_id)
                     \cup UserCompanyRetrieveView_get_queryset(u) :
            row[1] # u => AdminGrantExists(u, row[2])

\* C31: under concurrent verify_otp calls for one phone every wrong guess
\* raises the persisted attempts by one, so at most MAX_ATTEMPTS wrong guesses
\* are compared against one code before the record is blocked.
EveryWrongGuessCounted ==
    \A ph \in Phones :
        /\ otpLog.wrongs[ph] <= MAX_ATTEMPTS
        /\ (HasOtp(ph) /\ NoVerifyInFlight) => otps[get_otp(ph)].attempts = otpLog.wrongs[ph]

\* C32: while an account is locked, a login submission for it issues no
\* tokens and creates no 2FA login session.
LoginHonoursLock ==
    [][/\ Len(outstanding') > Len(outstanding) => ~is_locked(outstanding'[Len(outstanding')].user)
       /\ Len(sessions') > Len(sessions) => ~is_locked(sessions'[Len(sessions')].user)]_vars

\* an accept_invitation call has just returned the pair of rows to user u,
\* on an invitation for company c and role r
AcceptSucceeds(u, c, r) ==
    /\ invCall'.seq # invCall.seq
    /\ invCall'.op = "accept" /\ invCall'.result = "accepted"
    /\ invCall'.user = u
    /\ invitations[invCall'.id].company = c
    /\ invitations[invCall'.id].role = r

\* C33: when accept_invitation re-associates a user whose UserCompany row for
\* the company had been removed, the roles the user then holds in the company
\* are the role of the invitation only; a role held before the removal and not
\* granted again is not held.
RemovedGrantsNotRevived ==
    [][\A u \in Users, c \in Companies, r \in Roles :
          (AcceptSucceeds(u, c, r) /\ uc[u][c].exists /\ uc[u][c].is_deleted)
          => \A r2 \in Roles : EffectiveGrant(u, c, r2)' => r2 = r]_vars

\* C34: right after accept_invitation has succeeded for u on an invitation
\* for company c and role r, the grant of r to u in c is effective, whatever
\* state the user's rows were in before (the role itself being live when the
\* call is made).
AcceptGrantsEffectiveAccess ==
    [][\A u \in Users, c \in Companies, r \in Roles :
          (AcceptSucceeds(u, c, r) /\ ~roles[r].is_deleted) => EffectiveGrant(u, c, r)']_vars

\* C35: the admin-only update and delete endpoints apply their operation to a
\* UserCompany row only when the caller holds the admin role in the company
\* of that row.
UserCompanyChangeTenantScoped ==
    [][ucCall'.seq # ucCall.seq => AdminGrantExists(ucCall'.caller, ucCall'.company)]_vars

\* C36: once the third wrong guess has blocked a phone number, no verify_otp
\* call for it succeeds before BLOCK_MINUTES have passed, whatever create_otp,
\* verify_otp and delete_otp calls are made in between.
BlockNotBypassed ==
    otpLog.last.ok =>
        \/ otpLog.blockedAt[otpLog.last.phone] = NoTime
        \/ otpLog.blockedAt[otpLog.last.phone] > otpLog.last.at
        \/ otpLog.last.at >= otpLog.blockedAt[otpLog.last.phone] + BLOCK_MINUTES

\* C37: an invitation that was pending when the time passed its expires_at is
\* never accepted afterwards, whatever resend or revoke calls come in between.
AgedInvitationNeverAccepted ==
    [][(/\ invCall'.seq # invCall.seq
        /\ invCall'.op = "accept" /\ invCall'.result = "accepted") => invCall'.id \notin aged]_vars

\* C38: in every state in which a failed attempt has set the account's
\* locked_until, the persisted failed_login_attempts is at least
\* MAX_FAILED_ATTEMPTS.
LockedCounterAtThreshold ==
    \A u \in Users :
        acct[u].locked_until # NoTime => acct[u].failed_login_attempts >= MAX_FAILED_ATTEMPTS

\* C39: the answer of the password step to a 2FA-enabled user carries no
\* value that verify_2fa_session would accept as the code of the session just
\* created.
ChallengeKeepsSecondFactor ==
    [][\A sid \in 1..MaxSessions :
          (Len(sessions) = sid - 1 /\ Len(sessions') = sid)
          => ~verify_2fa_session_accepts(ChallengeResponse(sid).session_id,
                                         ChallengeResponse(sid).generated_code)']_vars

\* C40: login activity is recorded only for completed logins: in every state
\* the number of LoginActivity rows of a user is the number of token issuances
\* to that user.
ActivityOnlyForIssuedTokens ==
    \A u \in Users :
        Cardinality({i \in 1..Len(activity) : activity[i].user = u})
          = Cardinality({t \in 1..Len(outstanding) : outstanding[t].user = u})

====
